---- MODULE Spec2Model ----
(***************************************************************************)
(* Model of the sktime PyTorch adapters:                                   *)
(*   sktime/forecasting/base/adapters/_pytorch.py                          *)
(*       PyTorchDataset, BaseDeepNetworkPyTorch (_fit, _predict,           *)
(*       build_dataloader, _prepare_data), _same_index, _frame2numpy       *)
(*   sktime/forecasting/timesfm_forecaster.py                              *)
(*       TimesFMForecaster (_fit, _predict, _predict_pytorch)              *)
(*                                                                         *)
(* Data are modelled symbolically: the observation of instance `id` at     *)
(* time `t` is the pair <<id, t>>, so that every slice, reshape and        *)
(* forward pass shows which observations it was computed from.             *)
(***************************************************************************)
EXTENDS Integers, Sequences, FiniteSets, TLC

(***************************************************************************)
(* Bounds of the model.                                                    *)
(***************************************************************************)
MaxInst == 2
MaxLen == 4
MaxSeqLen == 2
MaxPredLen == 2
MaxContextLen == 2
MaxHorizonLen == 2
MaxVars == 2
MaxFits == 2

\* the relative offsets a forecasting horizon is drawn from
Steps == {1, 2}
\* the instance labels of a panel, in the order of its rows
PanelIds == {<<1, 2>>, <<2, 1>>}
BatchSizes == {1, 2}
EpochCounts == {1, 2}

(***************************************************************************)
(* Python / numpy primitives used by the code.                             *)
(***************************************************************************)
None == "None"

Max2(a, b) == IF a >= b THEN a ELSE b

Min2(a, b) == IF a <= b THEN a ELSE b

SetMax(S) == CHOOSE x \in S : \A z \in S : z <= x

SetMin(S) == CHOOSE x \in S : \A z \in S : x <= z

\* seq[a:b] for 0 <= a: the elements at 0-based positions a .. min(b, len)-1;
\* a slice never raises, it is cut at the end of the sequence.
PySlice(seq, a, b) == SubSeq(seq, a + 1, Min2(b, Len(seq)))

PyLastFromStart(seq, k) == SubSeq(seq, 1, Min2(k, Len(seq)))

\* seq[-k:] : the last k elements, all of them when k >= len (and when k = 0,
\* since -0 is 0).
PyLast(seq, k) ==
    IF k = 0 \/ k >= Len(seq) THEN seq ELSE SubSeq(seq, Len(seq) - k + 1, Len(seq))

\* list * n
RECURSIVE PyRepeatList(_, _)
PyRepeatList(seq, n) == IF n <= 0 THEN <<>> ELSE seq \o PyRepeatList(seq, n - 1)

\* np.ndarray.repeat(n) on a 1-d array: every element n times, in place.
RECURSIVE NpRepeat(_, _)
NpRepeat(seq, n) ==
    IF seq = <<>> THEN <<>>
    ELSE [k \in 1 .. n |-> Head(seq)] \o NpRepeat(Tail(seq), n)

\* np.unique: the distinct elements, sorted ascending.
RECURSIVE SortedSeq(_)
SortedSeq(S) ==
    IF S = {} THEN <<>>
    ELSE LET m == SetMin(S) IN <<m>> \o SortedSeq(S \ {m})

NpUnique(seq) == SortedSeq({seq[k] : k \in DOMAIN seq})

\* concatenation of a sequence of sequences
RECURSIVE Flatten(_)
Flatten(ss) == IF ss = <<>> THEN <<>> ELSE Head(ss) \o Flatten(Tail(ss))

\* the orders in which a shuffling sampler can deliver the indices 0 .. n-1
RECURSIVE Perms(_)
Perms(S) ==
    IF S = {} THEN {<<>>}
    ELSE UNION {{<<x>> \o q : q \in Perms(S \ {x})} : x \in S}

Orders(n) == Perms(0 .. n - 1)

Identity(n) == [k \in 1 .. n |-> k - 1]

(***************************************************************************)
(* PyTorchDataset (_pytorch.py 298-331).  y is the dense array               *)
(* (instance, time, variable), here a sequence of instances, each a         *)
(* sequence of rows.                                                        *)
(***************************************************************************)
PyTorchDataset(y, seq_len, pred_len) ==
    [y |-> y,
     num |-> Len(y),
     len |-> Len(y[1]),
     seq_len |-> seq_len,
     pred_len |-> pred_len,
     len_single |-> Len(y[1]) - seq_len - pred_len + 1]

DatasetLenNoClamp(d) == d.num * d.len_single

DatasetLen(d) == d.num * Max2(d.len_single, 0)

ItemInstanceSwapped(d, i) == i % d.len_single

\* n = i // self._len_single
ItemInstance(d, i) == i \div d.len_single

\* m = i % self._len_single
ItemOffset(d, i) == i % d.len_single

\* __getitem__: y[n] raises IndexError when n is outside the array.
DatasetGetItem(d, i) ==
    LET n == ItemInstance(d, i)
        m == ItemOffset(d, i)
    IN  IF n + 1 \notin DOMAIN d.y
        THEN [raised |-> "IndexError", hist |-> <<>>, futu |-> <<>>]
        ELSE [raised |-> None,
              hist |-> PySlice(d.y[n + 1], m, m + d.seq_len),
              futu |-> PySlice(d.y[n + 1], m + d.seq_len,
                               m + d.seq_len + d.pred_len)]

\* a dense panel of N instances of length L; the row of instance n at time t
\* (both 0-based) is <<n, t>>
DenseArray(N, L) == [n \in 1 .. N |-> [t \in 1 .. L |-> <<n - 1, t - 1>>]]

(***************************************************************************)
(* Frames.  A frame (pd.DataFrame) with an (instance, time) index is the    *)
(* labels of its instances in the order of its rows (ids), and for every    *)
(* instance its time index (times); the value of the row of instance id at  *)
(* time t is the observation <<id, t>>.  A frame with a flat index          *)
(* (multi = FALSE) has no instance level: it is one series, labelled        *)
(* NoInst here.                                                             *)
(***************************************************************************)
NoInst == 0

MkFrame(multi, ids, first, last) ==
    [multi |-> multi,
     names |-> IF multi THEN <<"instance", "time">> ELSE <<"time">>,
     columns |-> <<"y">>,
     ids |-> ids,
     times |-> [n \in 1 .. Len(ids) |->
                   [k \in 1 .. (last - first + 1) |-> first + k - 1]]]

\* data.values, in row order
FrameValues(data) ==
    Flatten([n \in 1 .. Len(data.ids) |->
                [k \in 1 .. Len(data.times[n]) |-> <<data.ids[n], data.times[n][k]>>]])

\* the last time stamp of the frame: the cutoff the framework sets from y
FrameCutoff(data) ==
    SetMax({data.times[n][Len(data.times[n])] : n \in DOMAIN data.times})

\* the position in the frame of the instance labelled id
Position(data, id) == CHOOSE n \in DOMAIN data.ids : data.ids[n] = id

same_index_unchecked(data) ==
    LET keys == NpUnique(data.ids)
        first == data.times[Position(data, keys[1])]
    IN  [ok |-> TRUE, idx |-> first, length |-> Len(first)]

\* _same_index (_pytorch.py 393-400): groupby sorts the groups by key; every
\* group's time index must equal the first group's.
same_index(data) ==
    LET keys == NpUnique(data.ids)
        first == data.times[Position(data, keys[1])]
    IN  [ok |-> \A n \in DOMAIN data.times : data.times[n] = first,
         idx |-> first,
         length |-> Len(first)]

\* arr.reshape((-1, length, n_cols)) of the values in row order
Reshape(vals, length) ==
    [n \in 1 .. (Len(vals) \div length) |->
        SubSeq(vals, (n - 1) * length + 1, n * length)]

\* _frame2numpy (_pytorch.py 403-408)
frame2numpy(data) ==
    LET si == same_index(data)
    IN  IF ~si.ok THEN [raised |-> "AssertionError", arr |-> <<>>]
        ELSE [raised |-> None, arr |-> Reshape(FrameValues(data), si.length)]

\* _prepare_data (_pytorch.py 188-198)
prepare_data(y) ==
    IF ~y.multi THEN [raised |-> None, arr |-> <<FrameValues(y)>>]
    ELSE frame2numpy(y)

VARIABLES dataset, dsCall, cfg, est, call, tcfg, tfm, tcall,
          clsDataset, clsDsCall, ccfg, clf, ccall, res, run

dsVars == <<dataset, dsCall>>

fcVars == <<cfg, est, call>>

tfmVars == <<tcfg, tfm, tcall>>

clsVars == <<clsDataset, clsDsCall, ccfg, clf, ccall, res>>

vars == <<dataset, dsCall, cfg, est, call, tcfg, tfm, tcall,
          clsDataset, clsDsCall, ccfg, clf, ccall, res, run>>

(***************************************************************************)
(* The network and the loop adapter's helpers.                              *)
(***************************************************************************)
\* the registries self.optimizers / self.criterions of a concrete estimator:
\* case-sensitive name |-> constructor
optimizers == [Adam |-> "torch.optim.Adam", SGD |-> "torch.optim.SGD"]

criterions == [MSE |-> "torch.nn.MSELoss", L1 |-> "torch.nn.L1Loss"]

\* no keyword arguments (None or an empty dict: both are falsy)
NoKwargs == {}

\* _build_network(fh): a new network module with the configured seq_len,
\* sized to fh; a new module is in training mode and has taken no optimizer
\* step.  id tells the module objects of one estimator apart: every call
\* constructs a new one.
build_network_warm(seq_len, fh) ==
    IF est.state = "fitted" THEN est.network
    ELSE [id |-> est.network.id + 1, seq_len |-> seq_len, pred_len |-> fh,
          mode |-> "train", steps |-> 0]

build_network(seq_len, fh) ==
    [id |-> est.network.id + 1, seq_len |-> seq_len, pred_len |-> fh,
     mode |-> "train", steps |-> 0]

network_eval_reset(net) == [net EXCEPT !.mode = "eval", !.steps = 0]

\* self.network.eval() (_pytorch.py 141): switches the mode, nothing else
network_eval(net) == [net EXCEPT !.mode = "eval"]

instantiate_optimizer_nocase(name, kwargs, lr, params) ==
    IF name # None
    THEN IF name \in DOMAIN optimizers \cup {"adam", "sgd"}
         THEN [raised |-> None, message |-> {},
               obj |-> [ctor |-> IF name \in {"Adam", "adam"}
                                 THEN optimizers["Adam"] ELSE optimizers["SGD"],
                        params |-> params, lr |-> lr, kwargs |-> kwargs]]
         ELSE [raised |-> "TypeError", message |-> DOMAIN optimizers, obj |-> None]
    ELSE [raised |-> None, message |-> {},
          obj |-> [ctor |-> "torch.optim.Adam", params |-> params, lr |-> lr,
                   kwargs |-> NoKwargs]]

\* _instantiate_optimizer (_pytorch.py 98-115); name None stands for a falsy
\* self.optimizer.  params is the network whose parameters the optimizer is
\* given; the TypeError's message lists the registry's keys.
instantiate_optimizer(name, kwargs, lr, params) ==
    IF name # None
    THEN IF name \in DOMAIN optimizers
         THEN IF kwargs # NoKwargs
              THEN [raised |-> None, message |-> {},
                    obj |-> [ctor |-> optimizers[name], params |-> params,
                             lr |-> lr, kwargs |-> kwargs]]
              ELSE [raised |-> None, message |-> {},
                    obj |-> [ctor |-> optimizers[name], params |-> params,
                             lr |-> lr, kwargs |-> NoKwargs]]
         ELSE [raised |-> "TypeError", message |-> DOMAIN optimizers, obj |-> None]
    ELSE [raised |-> None, message |-> {},
          obj |-> [ctor |-> "torch.optim.Adam", params |-> params, lr |-> lr,
                   kwargs |-> NoKwargs]]

instantiate_criterion_lenient(name, kwargs) ==
    IF name # None /\ name \in DOMAIN criterions
    THEN [raised |-> None, message |-> {},
          obj |-> [ctor |-> criterions[name], kwargs |-> kwargs]]
    ELSE [raised |-> None, message |-> {},
          obj |-> [ctor |-> "torch.nn.MSELoss", kwargs |-> NoKwargs]]

\* _instantiate_criterion (_pytorch.py 117-130)
instantiate_criterion(name, kwargs) ==
    IF name # None
    THEN IF name \in DOMAIN criterions
         THEN IF kwargs # NoKwargs
              THEN [raised |-> None, message |-> {},
                    obj |-> [ctor |-> criterions[name], kwargs |-> kwargs]]
              ELSE [raised |-> None, message |-> {},
                    obj |-> [ctor |-> criterions[name], kwargs |-> NoKwargs]]
         ELSE [raised |-> "TypeError", message |-> DOMAIN criterions, obj |-> None]
    ELSE [raised |-> None, message |-> {},
          obj |-> [ctor |-> "torch.nn.MSELoss", kwargs |-> NoKwargs]]

\* BaseDeepClassifierPytorch._build_network: a new network module
cls_build_network ==
    [id |-> clf.network.id + 1, mode |-> "train", steps |-> 0]

\* BaseDeepClassifierPytorch._instantiate_optimizer
\* (classification/deep_learning/_pytorch.py 88-105)
cls_instantiate_optimizer(name, kwargs, lr, params) ==
    IF name # None
    THEN IF name \in DOMAIN optimizers
         THEN IF kwargs # NoKwargs
              THEN [raised |-> None, message |-> {},
                    obj |-> [ctor |-> optimizers[name], params |-> params,
                             lr |-> lr, kwargs |-> kwargs]]
              ELSE [raised |-> None, message |-> {},
                    obj |-> [ctor |-> optimizers[name], params |-> params,
                             lr |-> lr, kwargs |-> NoKwargs]]
         ELSE [raised |-> "TypeError", message |-> DOMAIN optimizers, obj |-> None]
    ELSE [raised |-> None, message |-> {},
          obj |-> [ctor |-> "torch.optim.Adam", params |-> params, lr |-> lr,
                   kwargs |-> NoKwargs]]

\* BaseDeepClassifierPytorch._instantiate_criterion
\* (classification/deep_learning/_pytorch.py 107-120)
cls_instantiate_criterion(name, kwargs) ==
    IF name # None
    THEN IF name \in DOMAIN criterions
         THEN IF kwargs # NoKwargs
              THEN [raised |-> None, message |-> {},
                    obj |-> [ctor |-> criterions[name], kwargs |-> kwargs]]
              ELSE [raised |-> None, message |-> {},
                    obj |-> [ctor |-> criterions[name], kwargs |-> NoKwargs]]
         ELSE [raised |-> "TypeError", message |-> DOMAIN criterions, obj |-> None]
    ELSE [raised |-> None, message |-> {},
          obj |-> [ctor |-> "torch.nn.CrossEntropyLoss", kwargs |-> NoKwargs]]

\* self.network(x): the forecast of pred_len steps computed from window x
Forward(net, x) == [h \in 1 .. net.pred_len |-> [window |-> x, step |-> h]]

\* the dataset build_dataloader wraps (_pytorch.py 200-231).  For
\* split = "test" only the last seq_len rows of every instance are kept and
\* pred_len is 0.
build_dataset(net, y, split) ==
    LET pd == prepare_data(y)
    IN  IF pd.raised # None THEN [raised |-> pd.raised, ds |-> None]
        ELSE IF split = "test"
        THEN [raised |-> None,
              ds |-> PyTorchDataset(
                        [n \in 1 .. Len(pd.arr) |-> PyLast(pd.arr[n], net.seq_len)],
                        net.seq_len, 0)]
        ELSE [raised |-> None,
              ds |-> PyTorchDataset(pd.arr, net.seq_len, net.pred_len)]

RandomSamplerAcceptsEmpty(n) == None

\* DataLoader(dataset, batch_size, shuffle=True) constructs a RandomSampler
\* over the dataset, which rejects a data source of length 0 ("num_samples
\* should be a positive integer value").
RandomSampler(n) == IF n <= 0 THEN "ValueError" ELSE None

\* build_dataloader (_pytorch.py 200-233): the dataset, wrapped in a
\* shuffling DataLoader whatever the split
build_dataloader(net, y, split) ==
    LET bd == build_dataset(net, y, split)
    IN  IF bd.raised # None THEN [raised |-> bd.raised, ds |-> None, windows |-> 0]
        ELSE [raised |-> RandomSampler(DatasetLen(bd.ds)), ds |-> bd.ds,
              windows |-> DatasetLen(bd.ds)]

\* iterating the DataLoader: the sampler delivers the indices 0 .. len-1 in
\* any order, whatever the split.
SamplerOrders(n, split) == Orders(n)

BatchesDropLast(order, batch_size) ==
    [b \in 1 .. (Len(order) \div batch_size) |->
        SubSeq(order, (b - 1) * batch_size + 1, b * batch_size)]

\* the batches of a DataLoader: the order cut into runs of batch_size
Batches(order, batch_size) ==
    [b \in 1 .. ((Len(order) + batch_size - 1) \div batch_size) |->
        SubSeq(order, (b - 1) * batch_size + 1, Min2(b * batch_size, Len(order)))]

\* ForecastingHorizon(...).to_absolute(cutoff) on an integer index
ToAbsolute(h, cutoff) == cutoff + h

\* the reconstructed row index of a (multi-index) prediction of n_windows
\* windows of H steps (_pytorch.py 149-164, timesfm_forecaster.py 320-330)
ReconstructIndex(y, H, n_windows, cutoff) ==
    LET ins == NpRepeat(NpUnique(y.ids), H)
        idx == PyRepeatList([h \in 1 .. H |-> ToAbsolute(h, cutoff)], n_windows)
    IN  IF y.multi
        THEN IF Len(ins) # Len(idx)
             THEN [raised |-> "ValueError", index |-> <<>>]
             ELSE [raised |-> None,
                   index |-> [k \in 1 .. Len(idx) |->
                                 [inst |-> ins[k], time |-> idx[k]]]]
        ELSE [raised |-> None,
              index |-> [h \in 1 .. H |->
                            [inst |-> NoInst, time |-> ToAbsolute(h, cutoff)]]]

\* pd.DataFrame(values, index=index): row k is labelled index[k]
RECURSIVE DataFrame(_, _)
DataFrame(values, index) ==
    IF index = <<>> THEN <<>>
    ELSE <<[inst |-> Head(index).inst, time |-> Head(index).time,
            value |-> Head(values)]>> \o DataFrame(Tail(values), Tail(index))

\* the rows whose time level is in `times`, in their order
RECURSIVE SelectRows(_, _)
SelectRows(rows, times) ==
    IF rows = <<>> THEN <<>>
    ELSE IF Head(rows).time \in times
         THEN <<Head(rows)>> \o SelectRows(Tail(rows), times)
         ELSE SelectRows(Tail(rows), times)

FilterUpToMax(rows, fh, cutoff) ==
    SelectRows(rows, {ToAbsolute(h, cutoff) : h \in 1 .. SetMax(fh)})

\* pred.loc[dateindex] (_pytorch.py 179-183, timesfm_forecaster.py 346-350):
\* the rows whose time is one of the horizon's absolute time stamps
FilterToHorizon(rows, fh, cutoff) ==
    SelectRows(rows, {ToAbsolute(h, cutoff) : h \in fh})

(***************************************************************************)
(* BaseDatasetPytorch (classification/deep_learning/_pytorch.py 225-256).   *)
(* A classification input is a dense array of shape (instances, variables,  *)
(* time); the entry of instance n, variable v at time t is <<n, v, t>>.     *)
(***************************************************************************)
ClsArray(N, V, T) ==
    [n \in 1 .. N |-> [v \in 1 .. V |-> [t \in 1 .. T |-> <<n - 1, v - 1, t - 1>>]]]

\* y = None
NoLabels == <<>>

\* class labels of N instances
ClsLabels(N) == [n \in 1 .. N |-> n % 2]

TransposeNone(X) == X

\* np.transpose(X, (0, 2, 1))
Transpose021(X) ==
    [n \in DOMAIN X |->
        [t \in DOMAIN X[n][1] |-> [v \in DOMAIN X[n] |-> X[n][v][t]]]]

\* BaseDatasetPytorch.__init__
BaseDatasetPytorch(X, y) == [X |-> Transpose021(X), y |-> y]

\* BaseDatasetPytorch.__len__
ClsDatasetLen(d) == Len(d.X)

\* BaseDatasetPytorch.__getitem__: the inputs, with y[i] when y is given
ClsDatasetGetItem(d, i) ==
    LET x == d.X[i + 1]
        \* torch.ones(x.shape[:-1], dtype=torch.bool)
        padding_masks == [t \in DOMAIN x |-> TRUE]
        inputs == [X |-> x, padding_masks |-> padding_masks]
    IN  IF d.y = NoLabels
        THEN [inputs |-> inputs, has_y |-> FALSE, y |-> None]
        ELSE [inputs |-> inputs, has_y |-> TRUE, y |-> d.y[i + 1]]

NoDataset == PyTorchDataset(DenseArray(1, 1), 1, 0)

NoDsCall == [op |-> "init", i |-> 0, raised |-> None, result |-> None]

NoCfg ==
    [seq_len |-> 1, batch_size |-> 1, num_epochs |-> 1,
     optimizer |-> None, optimizer_kwargs |-> NoKwargs,
     criterion |-> None, criterion_kwargs |-> NoKwargs, lr |-> 1]

NoFrame ==
    [multi |-> FALSE, names |-> <<>>, columns |-> <<>>, ids |-> <<>>,
     times |-> <<>>]

NoNetwork ==
    [id |-> 0, seq_len |-> 0, pred_len |-> 0, mode |-> None, steps |-> 0]

Unfit ==
    [state |-> "unfit", network |-> NoNetwork, criterion |-> None,
     optimizer |-> None, y |-> NoFrame, cutoff |-> 0, fh |-> {}]

\* what a call did: loader tells whether build_dataloader was called,
\* forwards counts the forward passes, steps the optimizer steps, and grad
\* tells whether the forward passes ran with gradient tracking enabled
NoCall ==
    [op |-> "init", fh |-> {}, y |-> NoFrame, raised |-> None, message |-> {},
     loader |-> FALSE, windows |-> 0, forwards |-> 0, steps |-> 0, grad |-> FALSE,
     order |-> <<>>, items |-> <<>>, frame |-> <<>>, result |-> <<>>,
     names |-> <<>>, columns |-> <<>>]

\* fh = None
NoFH == {}

NoClsCfg ==
    [batch_size |-> 1, num_epochs |-> 1,
     optimizer |-> None, optimizer_kwargs |-> NoKwargs,
     criterion |-> None, criterion_kwargs |-> NoKwargs, lr |-> 1,
     verbose |-> TRUE]

NoClsNetwork == [id |-> 0, mode |-> None, steps |-> 0]

ClsUnfit ==
    [state |-> "unfit", network |-> NoClsNetwork, criterion |-> None,
     optimizer |-> None]

NoClsCall ==
    [op |-> "init", raised |-> None, message |-> {}, loader |-> FALSE,
     items |-> 0, forwards |-> 0, steps |-> 0]

\* no _instantiate_optimizer / _instantiate_criterion call yet
NoRes ==
    [adapter |-> None, kind |-> None, name |-> None, kwargs |-> NoKwargs,
     lr |-> 0, params |-> 0, raised |-> None, message |-> {}, obj |-> None]

\* no _run_epoch call yet: pc is the statement to execute next, b the number
\* of the batch at hand (from 1), grad the batches whose loss gradients are
\* accumulated in the parameters' .grad (0: left by an earlier epoch),
\* applied the gradients each optimizer step applied, log the statements
\* executed
NoRun ==
    [adapter |-> None, pc |-> "idle", batches |-> <<>>, b |-> 0, y_pred |-> 0,
     loss |-> [pred |-> 0, target |-> 0], grad |-> {}, applied |-> <<>>,
     losses |-> <<>>, log |-> <<>>]

NoClsDataset == BaseDatasetPytorch(ClsArray(1, 1, 1), NoLabels)

NoClsItem ==
    [inputs |-> [X |-> <<>>, padding_masks |-> <<>>], has_y |-> FALSE, y |-> None]

NoClsDsCall ==
    [op |-> "init", raw |-> ClsArray(1, 1, 1), i |-> 0, len |-> 0,
     item |-> NoClsItem]

NoTfmCfg == [context_len |-> 1, horizon_len |-> 1]

\* TimesFMForecaster.__init__ (timesfm_forecaster.py 164-166): _horizon_len
\* is None until fit
TfmUnfit ==
    [state |-> "unfit", _horizon_len |-> None, model |-> None,
     y |-> NoFrame, cutoff |-> 0, fh |-> NoFH]

NoTfmCall ==
    [op |-> "init", fhArg |-> NoFH, fh |-> NoFH, y |-> NoFrame, raised |-> None,
     message |-> None, converted |-> FALSE, decoded |-> FALSE, grad |-> FALSE,
     input |-> <<>>, pads |-> <<>>, frame |-> <<>>, result |-> <<>>,
     names |-> <<>>, columns |-> <<>>]

(***************************************************************************)
(* SpecDataset: a PyTorchDataset is constructed over a dense panel and is   *)
(* then queried the way a DataLoader queries it: len(), and __getitem__ for *)
(* the indices 0 .. len()-1.                                                *)
(***************************************************************************)
DsConstruct ==
    \E N \in 1 .. MaxInst, L \in 1 .. MaxLen, s \in 1 .. MaxSeqLen, p \in 0 .. MaxPredLen :
        /\ dataset' = PyTorchDataset(DenseArray(N, L), s, p)
        /\ dsCall' = [op |-> "init", i |-> 0, raised |-> None, result |-> None]
        /\ UNCHANGED <<run, fcVars, tfmVars, clsVars>>

DsLen ==
    /\ dsCall' = [op |-> "len", i |-> 0, raised |-> None,
                  result |-> DatasetLen(dataset)]
    /\ UNCHANGED <<run, dataset, fcVars, tfmVars, clsVars>>

DsGetItem ==
    \E i \in 0 .. DatasetLen(dataset) - 1 :
        LET item == DatasetGetItem(dataset, i)
        IN  /\ dsCall' = [op |-> "getitem", i |-> i, raised |-> item.raised,
                          result |-> [hist |-> item.hist, futu |-> item.futu]]
            /\ UNCHANGED <<run, dataset, fcVars, tfmVars, clsVars>>

DsInit ==
    \E N \in 1 .. MaxInst, L \in 1 .. MaxLen, s \in 1 .. MaxSeqLen, p \in 0 .. MaxPredLen :
        /\ dataset = PyTorchDataset(DenseArray(N, L), s, p)
        /\ dsCall = [op |-> "init", i |-> 0, raised |-> None, result |-> None]
        /\ cfg = NoCfg
        /\ est = Unfit
        /\ call = NoCall
        /\ tcfg = NoTfmCfg
        /\ tfm = TfmUnfit
        /\ tcall = NoTfmCall
        /\ clsDataset = NoClsDataset
        /\ clsDsCall = NoClsDsCall
        /\ ccfg = NoClsCfg
        /\ clf = ClsUnfit
        /\ ccall = NoClsCall
        /\ res = NoRes
        /\ run = NoRun

DsNext == DsConstruct \/ DsLen \/ DsGetItem

SpecDataset == DsInit /\ [][DsNext]_vars

(***************************************************************************)
(* BaseDeepNetworkPyTorch: the estimator is constructed with a             *)
(* configuration, then fit and predict are called in any order the          *)
(* framework allows (predict only on a fitted estimator).                   *)
(***************************************************************************)
IndexNamesUnset(y) == [k \in DOMAIN y.names |-> None]

\* names=_y.index.names (_pytorch.py 161-164), and
\* pred.index.names = _y.index.names (184)
IndexNames(y) == y.names

\* columns=_y.columns (_pytorch.py 172-176)
Columns(y) == y.columns

\* index.names = _y.index.names (timesfm_forecaster.py 337)
tfm_index_names(y) == y.names

\* columns=_y.columns (timesfm_forecaster.py 338-343)
tfm_columns(y) == y.columns

FHs == (SUBSET Steps) \ {{}}

\* horizons with in-sample points: zero or negative relative offsets
InSampleFHs == {{-2, -1, 0, 1, 2}, {0}}

capability_insample_on == TRUE

\* _tags (_pytorch.py 21-38): "capability:insample": False
capability_insample == FALSE

\* The framework's fit checks the horizon before it calls _fit: an estimator
\* whose tag capability:insample is false does not take a horizon with
\* in-sample points.
check_fh(fh) ==
    IF ~capability_insample /\ (\E h \in fh : h <= 0)
    THEN "NotImplementedError" ELSE None

\* the series with time index 1 .. L: a panel whose instances come in any
\* order, or one series with a flat index
Frames(L) ==
    {MkFrame(TRUE, ids, 1, L) : ids \in PanelIds}
        \cup {MkFrame(FALSE, <<NoInst>>, 1, L)}

\* panels ending at L whose instances do not share one time index: the
\* instance in the second row starts one step earlier and ends one step
\* earlier (other time stamps, same length), or starts one step later
\* (shorter)
RaggedFrames(L) ==
    {[multi |-> TRUE, names |-> <<"instance", "time">>, columns |-> <<"y">>,
      ids |-> ids,
      times |-> <<[k \in 1 .. L |-> k], other>>] :
        ids \in PanelIds,
        other \in {[k \in 1 .. L |-> k - 1]}
                      \cup (IF L >= 2 THEN {[k \in 1 .. L - 1 |-> k + 1]} ELSE {})}

\* the series fit can be given
TrainFrames == UNION {Frames(L) : L \in 1 .. MaxLen} \cup RaggedFrames(MaxLen)

\* the histories predict can be given (global forecasting): they end at the
\* cutoff
PredictFrames(cutoff) == Frames(cutoff) \cup RaggedFrames(cutoff)

Configs ==
    [seq_len : 1 .. MaxSeqLen, batch_size : BatchSizes, num_epochs : {1},
     optimizer : {None}, optimizer_kwargs : {NoKwargs},
     criterion : {None}, criterion_kwargs : {NoKwargs}, lr : {1}]

\* _run_epoch (_pytorch.py 90-96): one optimizer step per batch
run_epoch(net, batches) == [net EXCEPT !.steps = @ + Len(batches)]

\* for epoch in range(self.num_epochs): self._run_epoch(epoch, dataloader)
RECURSIVE run_epochs(_, _, _)
run_epochs(net, epochs, batches) ==
    IF epochs <= 0 THEN net
    ELSE run_epochs(run_epoch(net, batches), epochs - 1, batches)

\* fit, with _fit (_pytorch.py 66-88).  The framework resets the estimator,
\* checks the horizon, stores y, the cutoff and fh, calls _fit, and marks the
\* estimator fitted when _fit returns.  fh = NoFH stands for fh = None.
fit_on(frames) ==
    /\ est.network.id < MaxFits
    /\ \E y \in frames, fh \in FHs \cup InSampleFHs \cup {NoFH} :
        LET base == [Unfit EXCEPT !.network = est.network, !.y = y,
                                  !.cutoff = FrameCutoff(y), !.fh = fh]
            this == [NoCall EXCEPT !.op = "fit", !.fh = fh, !.y = y]
        IN  /\ UNCHANGED <<run, cfg, dsVars, tfmVars, clsVars>>
            /\ IF check_fh(fh) # None
               THEN /\ est' = [Unfit EXCEPT !.network = est.network]
                    /\ call' = [this EXCEPT !.raised = check_fh(fh)]
               ELSE IF fh = NoFH
               THEN \* fh.to_relative(self.cutoff) on None
                    /\ est' = base
                    /\ call' = [this EXCEPT !.raised = "AttributeError"]
               ELSE
                 \E net0 \in {build_network(cfg.seq_len, SetMax(fh))} :
                 \E crit \in {instantiate_criterion(cfg.criterion,
                                                    cfg.criterion_kwargs)} :
                 \E opt \in {instantiate_optimizer(cfg.optimizer,
                                 cfg.optimizer_kwargs, cfg.lr, net0.id)} :
                 IF crit.raised # None
                 THEN /\ est' = [base EXCEPT !.network = net0]
                      /\ call' = [this EXCEPT !.raised = crit.raised,
                                              !.message = crit.message]
                 ELSE IF opt.raised # None
                 THEN /\ est' = [base EXCEPT !.network = net0,
                                             !.criterion = crit.obj]
                      /\ call' = [this EXCEPT !.raised = opt.raised,
                                              !.message = opt.message]
                 ELSE
                   \E bd \in {build_dataloader(net0, y, "train")} :
                   IF bd.raised # None
                   THEN /\ est' = [base EXCEPT !.network = net0,
                                               !.criterion = crit.obj,
                                               !.optimizer = opt.obj]
                        /\ call' = [this EXCEPT !.raised = bd.raised,
                                                !.loader = TRUE,
                                                !.windows = bd.windows]
                   ELSE \* The sampler shuffles the windows anew in every epoch;
                        \* the trained network is identified by its number of
                        \* optimizer steps, which is the same for every order,
                        \* so one order stands for all of them.
                        LET order == Identity(DatasetLen(bd.ds))
                            batches == Batches(order, cfg.batch_size)
                            \* self.network.train(), then the epochs
                            net == run_epochs([net0 EXCEPT !.mode = "train"],
                                              cfg.num_epochs, batches)
                        IN  /\ est' = [base EXCEPT !.state = "fitted",
                                                   !.network = net,
                                                   !.criterion = crit.obj,
                                                   !.optimizer = opt.obj]
                            /\ call' = [this EXCEPT
                                           !.loader = TRUE,
                                           !.windows = bd.windows,
                                           !.forwards = net.steps,
                                           !.steps = net.steps,
                                           !.grad = TRUE]

\* _predict (_pytorch.py 132-186).  yArg = NoFrame stands for y = None.
\* (\E v \in {e} binds v to the value of e, evaluated once.)
fit == fit_on(TrainFrames)

\* _predict (_pytorch.py 132-186) with y drawn from frames, or y = None
predict_on(frames) ==
    /\ est.state = "fitted"
    /\ \E fh \in FHs, yArg \in frames \cup {NoFrame} :
        \E y \in {IF yArg # NoFrame THEN yArg ELSE est.y} :
        \E bd \in {build_dataloader(est.network, y, "test")} :
        LET net == network_eval(est.network)
            this == [NoCall EXCEPT !.op = "predict", !.fh = fh, !.y = yArg,
                                   !.loader = TRUE, !.windows = bd.windows]
        IN  /\ UNCHANGED <<run, cfg, dsVars, tfmVars, clsVars>>
            /\ IF bd.raised # None
               THEN /\ est' = est
                    /\ call' = [this EXCEPT !.raised = bd.raised]
               ELSE \E order \in SamplerOrders(DatasetLen(bd.ds), "test") :
                    \E items \in {[k \in 1 .. DatasetLen(bd.ds) |->
                                     DatasetGetItem(bd.ds, k - 1)]} :
                    \E batches \in {Batches(order, cfg.batch_size)} :
                    \* pred.append(self.network(x).detach()) per batch, then
                    \* cat(pred, dim=0): (windows, pred_len, n_cols)
                    \E pred \in {Flatten([b \in DOMAIN batches |->
                                    [j \in DOMAIN batches[b] |->
                                        Forward(net, items[batches[b][j] + 1].hist)]])} :
                    \E ri \in {ReconstructIndex(y, net.pred_len, Len(pred), est.cutoff)} :
                    \* pred.reshape(-1, pred.shape[-1])
                    \E values \in {Flatten(pred)} :
                    LET frame == DataFrame(values, ri.index)
                        \* the loop (143-145) is not wrapped in torch.no_grad():
                        \* the forward passes run in the ambient grad mode,
                        \* which is enabled; .detach() only cuts the result
                        \* from the graph that was recorded
                        seen == [this EXCEPT !.order = order, !.items = items,
                                             !.forwards = Len(batches),
                                             !.grad = TRUE]
                    IN  /\ est' = [est EXCEPT !.network = net]
                        /\ IF ri.raised # None
                           THEN call' = [seen EXCEPT !.raised = ri.raised]
                           ELSE IF Len(ri.index) # Len(values)
                           THEN \* DataFrame: index and values differ in length
                                call' = [seen EXCEPT !.raised = "ValueError"]
                           ELSE call' = [seen EXCEPT
                                            !.frame = frame,
                                            !.result = FilterToHorizon(
                                                          frame, fh, est.cutoff),
                                            !.names = IndexNames(y),
                                            !.columns = Columns(y)]

predict == predict_on(PredictFrames(est.cutoff))

Init ==
    /\ cfg \in Configs
    /\ est = Unfit
    /\ call = NoCall
    /\ dataset = NoDataset
    /\ dsCall = NoDsCall
    /\ tcfg = NoTfmCfg
    /\ tfm = TfmUnfit
    /\ tcall = NoTfmCall
    /\ clsDataset = NoClsDataset
    /\ clsDsCall = NoClsDsCall
    /\ ccfg = NoClsCfg
    /\ clf = ClsUnfit
    /\ ccall = NoClsCall
    /\ res = NoRes
    /\ run = NoRun

Next == fit \/ predict

Spec == Init /\ [][Next]_vars

(***************************************************************************)
(* TimesFMForecaster: constructed with context_len and horizon_len, then    *)
(* fit and predict are called in any order the framework allows.            *)
(***************************************************************************)
\* the value 0.0 of a padded position; no observation equals it
Zero == <<NoInst, NoInst>>

TfmConfigs == [context_len : 1 .. MaxContextLen, horizon_len : 1 .. MaxHorizonLen]

HorizonExceededByTwo(fh, horizon_len) == SetMax(fh) > horizon_len + 1

\* max(fh._values.values) > self._horizon_len (timesfm_forecaster.py 292)
HorizonExceeded(fh, horizon_len) == SetMax(fh) > horizon_len

\* _same_index (timesfm_forecaster.py 388-395)
tfm_same_index(data) ==
    LET keys == NpUnique(data.ids)
        first == data.times[Position(data, keys[1])]
    IN  [ok |-> \A n \in DOMAIN data.times : data.times[n] = first,
         idx |-> first,
         length |-> Len(first)]

\* _frame2numpy (timesfm_forecaster.py 398-403)
tfm_frame2numpy(data) ==
    LET si == tfm_same_index(data)
    IN  IF ~si.ok THEN [raised |-> "AssertionError", arr |-> <<>>]
        ELSE [raised |-> None, arr |-> Reshape(FrameValues(data), si.length)]

\* the conversion of the history to (batch_size, n_timestamps)
\* (timesfm_forecaster.py 301-307)
tfm_hist(y) ==
    IF y.multi THEN tfm_frame2numpy(y)
    ELSE [raised |-> None, arr |-> <<FrameValues(y)>>]

\* self.model.decode(input, pads, freq, horizon_len): horizon_len steps per
\* row of the input
Decode(input, pads, horizon_len) ==
    [n \in 1 .. Len(input) |->
        [h \in 1 .. horizon_len |-> [window |-> input[n], step |-> h]]]

predict_pytorch_pad_behind(hist, context_len, horizon_len) ==
    LET n_samples == Len(hist)
        n_timestamps == Len(hist[1])
        padding_len == context_len - n_timestamps
        tail == [n \in 1 .. n_samples |-> PyLast(hist[n], context_len)]
        forecast_input ==
            IF n_timestamps < context_len
            THEN [n \in 1 .. n_samples |->
                     tail[n] \o [k \in 1 .. padding_len |-> Zero]]
            ELSE tail
        forecast_pads ==
            [n \in 1 .. n_samples |->
                [k \in 1 .. (context_len + horizon_len) |->
                    IF n_timestamps < context_len /\ k <= padding_len
                    THEN 1 ELSE 0]]
    IN  [input |-> forecast_input,
         pads |-> forecast_pads,
         grad |-> FALSE,
         forecasts |-> Decode(forecast_input, forecast_pads, horizon_len)]

\* _predict_pytorch (timesfm_forecaster.py 240-285)
predict_pytorch(hist, context_len, horizon_len) ==
    LET n_samples == Len(hist)
        n_timestamps == Len(hist[1])
        padding_len == context_len - n_timestamps
        tail == [n \in 1 .. n_samples |-> PyLast(hist[n], context_len)]
        forecast_input ==
            IF n_timestamps < context_len
            THEN [n \in 1 .. n_samples |->
                     [k \in 1 .. padding_len |-> Zero] \o tail[n]]
            ELSE tail
        forecast_pads ==
            [n \in 1 .. n_samples |->
                [k \in 1 .. (context_len + horizon_len) |->
                    IF n_timestamps < context_len /\ k <= padding_len
                    THEN 1 ELSE 0]]
    IN  [input |-> forecast_input,
         pads |-> forecast_pads,
         \* with torch.no_grad(): (273-274)
         grad |-> FALSE,
         forecasts |-> Decode(forecast_input, forecast_pads, horizon_len)]

fit_horizon_len_configured(horizon_len, fh) == horizon_len

fit_horizon_len_of_fh(horizon_len, fh) ==
    IF fh # NoFH THEN SetMax(fh) ELSE horizon_len

\* _fit (timesfm_forecaster.py 225-229):
\* max(self.horizon_len, *fh._values.values), or self.horizon_len without fh
fit_horizon_len(horizon_len, fh) ==
    IF fh # NoFH THEN Max2(horizon_len, SetMax(fh)) ELSE horizon_len

\* _fit (timesfm_forecaster.py 224-234) with _fit_pytorch (211-222): the
\* model is loaded; a loaded module is in training mode.  fh = NoFH stands
\* for fh = None.
tfm_fit_on(frames) ==
    \E y \in frames, fh \in FHs \cup {NoFH} :
        /\ tfm' = [state |-> "fitted",
                   _horizon_len |-> fit_horizon_len(tcfg.horizon_len, fh),
                   model |-> "train",
                   y |-> y, cutoff |-> FrameCutoff(y), fh |-> fh]
        /\ tcall' = [NoTfmCall EXCEPT !.op = "fit", !.fhArg = fh, !.fh = fh,
                                      !.y = y]
        /\ UNCHANGED <<run, tcfg, dsVars, fcVars, clsVars>>

tfm_fit == tfm_fit_on(TrainFrames)

\* _predict (timesfm_forecaster.py 287-352) with y drawn from frames.
\* fhArg = NoFH stands for fh = None, allowed when fit was given a horizon;
\* yArg = NoFrame for y = None.
tfm_predict_on(frames) ==
    /\ tfm.state = "fitted"
    /\ \E fhArg \in FHs \cup (IF tfm.fh # NoFH THEN {NoFH} ELSE {}),
          yArg \in frames \cup {NoFrame} :
        \E fh \in {IF fhArg = NoFH THEN tfm.fh ELSE fhArg} :
        \E y \in {IF yArg # NoFrame THEN yArg ELSE tfm.y} :
        LET this == [NoTfmCall EXCEPT !.op = "predict", !.fhArg = fhArg,
                                      !.fh = fh, !.y = yArg]
        IN  /\ UNCHANGED <<run, tcfg, dsVars, fcVars, clsVars>>
            /\ IF HorizonExceeded(fh, tfm._horizon_len)
               THEN /\ tfm' = tfm
                    /\ tcall' = [this EXCEPT !.raised = "ValueError",
                                             !.message = tfm._horizon_len]
               ELSE \E hist \in {tfm_hist(y)} :
                    IF hist.raised # None
                    THEN /\ tfm' = tfm
                         /\ tcall' = [this EXCEPT !.raised = hist.raised]
                    ELSE \E pp \in {predict_pytorch(hist.arr, tcfg.context_len,
                                                    tfm._horizon_len)} :
                         \E ri \in {ReconstructIndex(y, Len(pp.forecasts[1]),
                                                     Len(pp.forecasts), tfm.cutoff)} :
                         \* pred.ravel()
                         \E values \in {Flatten(pp.forecasts)} :
                         LET frame == DataFrame(values, ri.index)
                             seen == [this EXCEPT !.converted = TRUE,
                                                  !.decoded = TRUE,
                                                  !.grad = pp.grad,
                                                  !.input = pp.input,
                                                  !.pads = pp.pads]
                         IN  \* self.model.eval()
                             /\ tfm' = [tfm EXCEPT !.model = "eval"]
                             /\ IF ri.raised # None
                                THEN tcall' = [seen EXCEPT !.raised = ri.raised]
                                ELSE IF Len(ri.index) # Len(values)
                                THEN tcall' = [seen EXCEPT !.raised = "ValueError"]
                                ELSE tcall' = [seen EXCEPT
                                                  !.frame = frame,
                                                  !.result = FilterToHorizon(
                                                                frame, fh, tfm.cutoff),
                                                  !.names = tfm_index_names(y),
                                                  !.columns = tfm_columns(y)]

tfm_predict == tfm_predict_on(PredictFrames(tfm.cutoff))

TfmInit ==
    /\ tcfg \in TfmConfigs
    /\ tfm = TfmUnfit
    /\ tcall = NoTfmCall
    /\ cfg = NoCfg
    /\ est = Unfit
    /\ call = NoCall
    /\ dataset = NoDataset
    /\ dsCall = NoDsCall
    /\ clsDataset = NoClsDataset
    /\ clsDsCall = NoClsDsCall
    /\ ccfg = NoClsCfg
    /\ clf = ClsUnfit
    /\ ccall = NoClsCall
    /\ res = NoRes
    /\ run = NoRun

TfmNext == tfm_fit \/ tfm_predict

SpecTimesFM == TfmInit /\ [][TfmNext]_vars

(***************************************************************************)
(* SpecSizing: one forecaster, the loop adapter or TimesFM, is fit with     *)
(* and without a horizon.  A behaviour is the life of one estimator: the    *)
(* loop adapter when its first call is fit, TimesFM when it is tfm_fit.     *)
(***************************************************************************)
SizingInit ==
    /\ tcfg \in TfmConfigs
    /\ cfg = NoCfg
    /\ tfm = TfmUnfit
    /\ tcall = NoTfmCall
    /\ est = Unfit
    /\ call = NoCall
    /\ dataset = NoDataset
    /\ dsCall = NoDsCall
    /\ clsDataset = NoClsDataset
    /\ clsDsCall = NoClsDsCall
    /\ ccfg = NoClsCfg
    /\ clf = ClsUnfit
    /\ ccall = NoClsCall
    /\ res = NoRes
    /\ run = NoRun

SizingLoopAdapter == tcall.op = "init" /\ fit

SizingTimesFM == call.op = "init" /\ tfm_fit

SizingNext == SizingLoopAdapter \/ SizingTimesFM

SpecSizing == SizingInit /\ [][SizingNext]_vars

(***************************************************************************)
(* PyTorchTrainDataset (_pytorch.py 334-361).  y and X are the values of     *)
(* two frames: arrays of rows, each row the values of the columns.  In      *)
(* SpecTrainDataset the variable dataset holds a PyTorchTrainDataset.       *)
(***************************************************************************)
\* the array named a with T rows and C columns
Array2(a, T, C) == [t \in 1 .. T |-> [c \in 1 .. C |-> <<a, t - 1, c - 1>>]]

\* X = None
NoExog == <<>>

\* tensor([]): one dimension, no element
EmptyTensor == <<>>

\* __init__ (_pytorch.py 337-341)
PyTorchTrainDataset(y, seq_len, fh, X) ==
    [y |-> y, X |-> X, seq_len |-> seq_len, fh |-> fh]

\* __len__ (_pytorch.py 343-345)
TrainDatasetLen(d) == Max2(Len(d.y) - d.seq_len - d.fh + 1, 0)

\* torch.cat([a, b]) of a two-dimensional a: the default dim is 0, so the
\* rows of b follow the rows of a and the numbers of columns must agree; a
\* tensor of shape (0,) is skipped
TorchCat(a, b) ==
    IF b = EmptyTensor THEN [raised |-> None, value |-> a]
    ELSE IF Len(a[1]) # Len(b[1]) THEN [raised |-> "RuntimeError", value |-> <<>>]
    ELSE [raised |-> None, value |-> a \o b]

\* __getitem__ (_pytorch.py 347-361)
TrainDatasetGetItem(d, i) ==
    LET hist_y == PySlice(d.y, i, i + d.seq_len)
        exog_data == IF d.X # NoExog
                     THEN PySlice(d.X, i + d.seq_len, i + d.seq_len + d.fh)
                     ELSE EmptyTensor
        cat == TorchCat(hist_y, exog_data)
    IN  [raised |-> cat.raised,
         input |-> cat.value,
         target |-> IF cat.raised # None THEN <<>>
                    ELSE PySlice(d.y, i + d.seq_len, i + d.seq_len + d.fh)]

\* the exogenous frames a training dataset can be given along with a y of
\* L rows: none, or L rows of 1 .. MaxVars columns
Exogs(L) == {NoExog} \cup {Array2("X", L, k) : k \in 1 .. MaxVars}

TdConstruct ==
    \E L \in 1 .. MaxLen, C \in 1 .. MaxVars, s \in 1 .. MaxSeqLen,
       f \in 1 .. MaxPredLen :
        \E X \in Exogs(L) :
            /\ dataset' = PyTorchTrainDataset(Array2("y", L, C), s, f, X)
            /\ dsCall' = NoDsCall
            /\ UNCHANGED <<run, fcVars, tfmVars, clsVars>>

TdLen ==
    /\ dsCall' = [op |-> "len", i |-> 0, raised |-> None,
                  result |-> TrainDatasetLen(dataset)]
    /\ UNCHANGED <<run, dataset, fcVars, tfmVars, clsVars>>

TdGetItem ==
    \E i \in 0 .. TrainDatasetLen(dataset) - 1 :
        LET item == TrainDatasetGetItem(dataset, i)
        IN  /\ dsCall' = [op |-> "getitem", i |-> i, raised |-> item.raised,
                          result |-> [input |-> item.input,
                                      target |-> item.target]]
            /\ UNCHANGED <<run, dataset, fcVars, tfmVars, clsVars>>

TdInit ==
    /\ \E L \in 1 .. MaxLen, C \in 1 .. MaxVars, s \in 1 .. MaxSeqLen,
          f \in 1 .. MaxPredLen :
           \E X \in Exogs(L) :
               dataset = PyTorchTrainDataset(Array2("y", L, C), s, f, X)
    /\ dsCall = NoDsCall
    /\ cfg = NoCfg
    /\ est = Unfit
    /\ call = NoCall
    /\ tcfg = NoTfmCfg
    /\ tfm = TfmUnfit
    /\ tcall = NoTfmCall
    /\ clsDataset = NoClsDataset
    /\ clsDsCall = NoClsDsCall
    /\ ccfg = NoClsCfg
    /\ clf = ClsUnfit
    /\ ccall = NoClsCall
    /\ res = NoRes
    /\ run = NoRun

TdNext == TdConstruct \/ TdLen \/ TdGetItem

SpecTrainDataset == TdInit /\ [][TdNext]_vars

(***************************************************************************)
(* SpecNames: one forecaster, the loop adapter or TimesFM, is fit and asked *)
(* to predict on frames whose index levels and column carry any names.      *)
(***************************************************************************)
\* (index level names, column names) a frame can carry
Namings(multi) ==
    IF multi THEN {<<<<"instance", "time">>, <<"y">>>>,
                   <<<<"id", "date">>, <<"value">>>>}
    ELSE {<<<<"time">>, <<"y">>>>, <<<<"date">>, <<"value">>>>}

\* the frames with time index 1 .. L, under every naming
NamedFrames(L) ==
    UNION {{[f EXCEPT !.names = n[1], !.columns = n[2]] : n \in Namings(f.multi)} :
           f \in Frames(L)}

NamesInit ==
    /\ cfg = NoCfg
    /\ tcfg = NoTfmCfg
    /\ est = Unfit
    /\ call = NoCall
    /\ tfm = TfmUnfit
    /\ tcall = NoTfmCall
    /\ dataset = NoDataset
    /\ dsCall = NoDsCall
    /\ clsDataset = NoClsDataset
    /\ clsDsCall = NoClsDsCall
    /\ ccfg = NoClsCfg
    /\ clf = ClsUnfit
    /\ ccall = NoClsCall
    /\ res = NoRes
    /\ run = NoRun

NamesFit == tcall.op = "init" /\ fit_on(NamedFrames(MaxLen))

NamesPredict == predict_on(NamedFrames(est.cutoff))

NamesTfmFit == call.op = "init" /\ tfm_fit_on(NamedFrames(MaxLen))

NamesTfmPredict == tfm_predict_on(NamedFrames(tfm.cutoff))

NamesNext == NamesFit \/ NamesPredict \/ NamesTfmFit \/ NamesTfmPredict

SpecNames == NamesInit /\ [][NamesNext]_vars

(***************************************************************************)
(* Dataset_Custom (networks/ltsf/data/dataset.py): the windows of one split *)
(* of a series of n rows.  Row t of the (scaled) data is written t, a row   *)
(* of zeros 0; the time features of row t are written t as well.            *)
(***************************************************************************)
\* seq[a:b] of an array or frame: a negative bound counts from the end, and
\* the slice is cut at both ends of the sequence
NpSlice(seq, a, b) ==
    LET n == Len(seq)
        lo == IF a < 0 THEN Max2(n + a, 0) ELSE Min2(a, n)
        hi == IF b < 0 THEN Max2(n + b, 0) ELSE Min2(b, n)
    IN  SubSeq(seq, lo + 1, hi)

\* type_map (dataset.py 43)
type_map == [train |-> 1, val |-> 2, test |-> 3]

\* __init__ (dataset.py 14-56) with __read_data__ (71-133) on n rows
Dataset_Custom(n, flag, size, scale, train_only) ==
    LET seq_len == size[1]
        label_len == size[2]
        pred_len == size[3]
        data == [t \in 1 .. n |-> t]
        \* int(len(df_raw) * 0.7), or all rows; int(len(df_raw) * 0.2)
        num_train == IF train_only THEN n ELSE (7 * n) \div 10
        num_test == (2 * n) \div 10
        num_vali == n - num_train - num_test
        border1s == <<0, num_train - seq_len, n - seq_len - pred_len>>
        border2s == <<num_train, num_train + num_vali, n>>
        border1 == border1s[type_map[flag]]
        border2 == border2s[type_map[flag]]
    IN  [seq_len |-> seq_len, label_len |-> label_len, pred_len |-> pred_len,
         \* self.scaler.fit(train_data.values) (dataset.py 104-106): a
         \* StandardScaler cannot be fitted to no row
         raised |-> IF scale /\ num_train = 0 THEN "ValueError" ELSE None,
         data_x |-> NpSlice(data, border1, border2),
         data_y |-> NpSlice(data, border1, border2),
         data_stamp |-> NpSlice(data, border1, border2)]

\* __len__ (dataset.py 156-157)
CustomLen(d) == Len(d.data_x) - d.seq_len - d.pred_len + 1

\* len(dataset): the interpreter rejects a negative __len__
BuiltinLen(d) ==
    IF CustomLen(d) < 0 THEN [raised |-> "ValueError", result |-> CustomLen(d)]
    ELSE [raised |-> None, result |-> CustomLen(d)]

\* torch.zeros_like(a)
ZerosLike(a) == [k \in DOMAIN a |-> 0]

\* __getitem__ (dataset.py 135-154)
CustomGetItem(d, index) ==
    LET s_begin == index
        s_end == s_begin + d.seq_len
        r_begin == s_end - d.label_len
        r_end == r_begin + d.label_len + d.pred_len
        seq_x == NpSlice(d.data_x, s_begin, s_end)
        seq_y == NpSlice(d.data_y, r_begin, r_end)
        seq_x_mark == NpSlice(d.data_stamp, s_begin, s_end)
        seq_y_mark == NpSlice(d.data_stamp, r_begin, r_end)
        dec_inp == PySlice(seq_y, 0, d.label_len)
                       \o ZerosLike(PyLast(seq_y, d.pred_len))
    IN  [x_enc |-> seq_x, x_mark_enc |-> seq_x_mark, x_dec |-> dec_inp,
         x_mark_dec |-> seq_y_mark, target |-> PyLast(seq_y, d.pred_len)]

\* the datasets that can be built over a series of 1 .. MaxLen rows: the
\* network gives pred_len >= 1 steps to forecast and seq_len >= 1 steps of
\* history
CustomDatasets ==
    {d \in {Dataset_Custom(n, flag, <<s, l, p>>, scale, train_only) :
                n \in 1 .. MaxLen, flag \in {"train", "val", "test"},
                s \in 1 .. MaxSeqLen, l \in 0 .. MaxSeqLen, p \in 1 .. MaxPredLen,
                scale \in BOOLEAN, train_only \in BOOLEAN} :
        d.raised = None}

DcConstruct ==
    /\ dataset' \in CustomDatasets
    /\ dsCall' = NoDsCall
    /\ UNCHANGED <<run, fcVars, tfmVars, clsVars>>

DcLen ==
    /\ dsCall' = [op |-> "len", i |-> 0, raised |-> BuiltinLen(dataset).raised,
                  result |-> BuiltinLen(dataset).result]
    /\ UNCHANGED <<run, dataset, fcVars, tfmVars, clsVars>>

\* the indices a DataLoader asks for
DcGetItem ==
    \E i \in 0 .. CustomLen(dataset) - 1 :
        /\ dsCall' = [op |-> "getitem", i |-> i, raised |-> None,
                      result |-> CustomGetItem(dataset, i)]
        /\ UNCHANGED <<run, dataset, fcVars, tfmVars, clsVars>>

DcInit ==
    /\ dataset \in CustomDatasets
    /\ dsCall = NoDsCall
    /\ cfg = NoCfg
    /\ est = Unfit
    /\ call = NoCall
    /\ tcfg = NoTfmCfg
    /\ tfm = TfmUnfit
    /\ tcall = NoTfmCall
    /\ clsDataset = NoClsDataset
    /\ clsDsCall = NoClsDsCall
    /\ ccfg = NoClsCfg
    /\ clf = ClsUnfit
    /\ ccall = NoClsCall
    /\ res = NoRes
    /\ run = NoRun

DcNext == DcConstruct \/ DcLen \/ DcGetItem

SpecCustomDataset == DcInit /\ [][DcNext]_vars

(***************************************************************************)
(* SpecEpoch: one call of _run_epoch of either adapter, statement by        *)
(* statement, over the batches of a dataloader; further calls follow.       *)
(***************************************************************************)
run_epoch_body_zero_late == <<"forward", "loss", "backward", "zero_grad", "step">>

\* the body of the loop of _run_epoch (_pytorch.py 92-96)
run_epoch_body == <<"forward", "loss", "zero_grad", "backward", "step">>

\* the body of the loop of _run_epoch (classification _pytorch.py 79-84)
cls_run_epoch_body ==
    <<"forward", "loss", "zero_grad", "backward", "step", "append">>

Body(adapter) ==
    IF adapter = "classification" THEN cls_run_epoch_body ELSE run_epoch_body

\* where control is after statement stmt of the body: at the next statement,
\* or back at the head of the loop
After(adapter, stmt) ==
    LET body == Body(adapter)
        k == CHOOSE j \in DOMAIN body : body[j] = stmt
    IN  IF k = Len(body) THEN "next" ELSE body[k + 1]

\* statement stmt has been executed on the batch at hand
Executed(stmt) ==
    [run EXCEPT !.log = Append(@, [stmt |-> stmt, batch |-> run.b]),
                !.pc = After(run.adapter, stmt)]

\* _run_epoch is called with a dataloader over n items; gradients left in
\* .grad by an earlier call are still there
EpochStart ==
    /\ run.pc \in {"idle", "done"}
    /\ \E adapter \in {"forecasting", "classification"},
          n \in 1 .. MaxLen, batch_size \in BatchSizes :
          run' = [NoRun EXCEPT !.adapter = adapter, !.pc = "next",
                               !.batches = Batches(Identity(n), batch_size),
                               !.grad = IF run.grad = {} THEN {} ELSE {0}]
    /\ UNCHANGED <<dsVars, fcVars, tfmVars, clsVars>>

\* for x, y in dataloader:
EpochNextBatch ==
    /\ run.pc = "next"
    /\ run' = IF run.b < Len(run.batches)
              THEN [run EXCEPT !.b = @ + 1, !.pc = Body(run.adapter)[1]]
              ELSE [run EXCEPT !.pc = "done"]
    /\ UNCHANGED <<dsVars, fcVars, tfmVars, clsVars>>

\* y_pred = self.network(x)
EpochForward ==
    /\ run.pc = "forward"
    /\ run' = [Executed("forward") EXCEPT !.y_pred = run.b]
    /\ UNCHANGED <<dsVars, fcVars, tfmVars, clsVars>>

\* loss = self._criterion(y_pred, y)
EpochLoss ==
    /\ run.pc = "loss"
    /\ run' = [Executed("loss") EXCEPT
                  !.loss = [pred |-> run.y_pred, target |-> run.b]]
    /\ UNCHANGED <<dsVars, fcVars, tfmVars, clsVars>>

\* self._optimizer.zero_grad()
EpochZeroGrad ==
    /\ run.pc = "zero_grad"
    /\ run' = [Executed("zero_grad") EXCEPT !.grad = {}]
    /\ UNCHANGED <<dsVars, fcVars, tfmVars, clsVars>>

\* loss.backward(): the gradients of the loss are added to .grad
EpochBackward ==
    /\ run.pc = "backward"
    /\ run' = [Executed("backward") EXCEPT !.grad = @ \cup {run.loss.pred}]
    /\ UNCHANGED <<dsVars, fcVars, tfmVars, clsVars>>

\* self._optimizer.step(): the parameters move by what is in .grad
EpochStep ==
    /\ run.pc = "step"
    /\ run' = [Executed("step") EXCEPT !.applied = Append(@, run.grad)]
    /\ UNCHANGED <<dsVars, fcVars, tfmVars, clsVars>>

\* losses.append(loss.item())
EpochAppend ==
    /\ run.pc = "append"
    /\ run' = [Executed("append") EXCEPT !.losses = Append(@, run.loss)]
    /\ UNCHANGED <<dsVars, fcVars, tfmVars, clsVars>>

EpochInit ==
    /\ run = NoRun
    /\ cfg = NoCfg
    /\ est = Unfit
    /\ call = NoCall
    /\ tcfg = NoTfmCfg
    /\ tfm = TfmUnfit
    /\ tcall = NoTfmCall
    /\ dataset = NoDataset
    /\ dsCall = NoDsCall
    /\ clsDataset = NoClsDataset
    /\ clsDsCall = NoClsDsCall
    /\ ccfg = NoClsCfg
    /\ clf = ClsUnfit
    /\ ccall = NoClsCall
    /\ res = NoRes

EpochNext ==
    \/ EpochStart
    \/ EpochNextBatch
    \/ EpochForward
    \/ EpochLoss
    \/ EpochZeroGrad
    \/ EpochBackward
    \/ EpochStep
    \/ EpochAppend

SpecEpoch == EpochInit /\ [][EpochNext]_vars

(***************************************************************************)
(* Claims about PyTorchDataset (checked under SpecDataset).                 *)
(***************************************************************************)
DsN == Len(dataset.y)

DsL == Len(dataset.y[1])

DsW == DsL - dataset.seq_len - dataset.pred_len + 1

\* C1: for a dense panel of N instances of length L, a PyTorchDataset with
\* seq_len = s and pred_len = p reports length N * max(L - s - p + 1, 0); when
\* L < s + p the length is 0, and neither construction nor len() raises.
C1_WindowCount ==
    /\ dsCall.op \in {"init", "len"} => dsCall.raised = None
    /\ dsCall.op = "len" =>
        /\ dsCall.result = (IF DsW > 0 THEN DsN * DsW ELSE 0)
        /\ (DsL < dataset.seq_len + dataset.pred_len => dsCall.result = 0)

\* len() was asked of a two-instance dataset whose instances are too short
C1_Witness ==
    /\ dsCall.op = "len"
    /\ DsN = 2
    /\ DsL < dataset.seq_len + dataset.pred_len
    /\ dsCall.result = 0

\* C2: for L >= s + p and W = L - s - p + 1, item i is the history rows
\* [m, m+s) and the future rows [m+s, m+s+p) of instance n, with n = i div W and
\* m = i mod W; n < N and m + s + p <= L (no slice is cut short), and i -> (n, m)
\* is a bijection between 0 .. N*W-1 and instances x offsets 0 .. L-s-p.
C2_GetItemWindow ==
    DsL >= dataset.seq_len + dataset.pred_len =>
        /\ dsCall.op = "getitem" =>
            LET n == dsCall.i \div DsW
                m == dsCall.i % DsW
            IN  /\ dsCall.raised = None
                /\ n < DsN
                /\ m + dataset.seq_len + dataset.pred_len <= DsL
                /\ dsCall.result.hist =
                       [k \in 1 .. dataset.seq_len |-> <<n, m + k - 1>>]
                /\ dsCall.result.futu =
                       [k \in 1 .. dataset.pred_len |->
                           <<n, m + dataset.seq_len + k - 1>>]
        /\ \A n \in 0 .. DsN - 1, m \in 0 .. DsW - 1 :
               Cardinality({i \in 0 .. DsN * DsW - 1 :
                               /\ ItemInstance(dataset, i) = n
                               /\ ItemOffset(dataset, i) = m}) = 1

\* the last item of a two-instance dataset with several windows per instance
C2_Witness ==
    /\ dsCall.op = "getitem"
    /\ DsN = 2
    /\ DsW >= 2
    /\ dataset.pred_len >= 1
    /\ dsCall.i = DsN * DsW - 1
    /\ dsCall.raised = None

(***************************************************************************)
(* SpecResolve: _instantiate_optimizer and _instantiate_criterion of the    *)
(* two adapters, called on estimators configured with any name, keyword     *)
(* arguments and learning rate.                                             *)
(***************************************************************************)
\* configured names: registry keys, other spellings of them, unknown names,
\* and None
OptimizerNames == {None, "Adam", "SGD", "adam", "ADAM", "RMSprop"}

CriterionNames == {None, "MSE", "L1", "mse", "Huber"}

OptimizerKwargs ==
    {NoKwargs, {<<"weight_decay", "0.01">>},
     {<<"weight_decay", "0.01">>, <<"eps", "1e-6">>}}

CriterionKwargs == {NoKwargs, {<<"reduction", "sum">>}, {<<"reduction", "none">>}}

\* learning rates, in thousandths
LRs == {1, 2, 3}

FcResolveOptimizer ==
    \E name \in OptimizerNames, kwargs \in OptimizerKwargs, lr \in LRs,
       params \in 1 .. MaxFits :
        \E r \in {instantiate_optimizer(name, kwargs, lr, params)} :
        /\ res' = [adapter |-> "forecasting", kind |-> "optimizer", name |-> name,
                   kwargs |-> kwargs, lr |-> lr, params |-> params,
                   raised |-> r.raised, message |-> r.message, obj |-> r.obj]
        /\ UNCHANGED <<run, dsVars, fcVars, tfmVars, clsDataset, clsDsCall, ccfg, clf, ccall>>

FcResolveCriterion ==
    \E name \in CriterionNames, kwargs \in CriterionKwargs :
        \E r \in {instantiate_criterion(name, kwargs)} :
        /\ res' = [NoRes EXCEPT !.adapter = "forecasting", !.kind = "criterion",
                                !.name = name, !.kwargs = kwargs,
                                !.raised = r.raised, !.message = r.message,
                                !.obj = r.obj]
        /\ UNCHANGED <<run, dsVars, fcVars, tfmVars, clsDataset, clsDsCall, ccfg, clf, ccall>>

ClsResolveOptimizer ==
    \E name \in OptimizerNames, kwargs \in OptimizerKwargs, lr \in LRs,
       params \in 1 .. MaxFits :
        \E r \in {cls_instantiate_optimizer(name, kwargs, lr, params)} :
        /\ res' = [adapter |-> "classification", kind |-> "optimizer",
                   name |-> name, kwargs |-> kwargs, lr |-> lr, params |-> params,
                   raised |-> r.raised, message |-> r.message, obj |-> r.obj]
        /\ UNCHANGED <<run, dsVars, fcVars, tfmVars, clsDataset, clsDsCall, ccfg, clf, ccall>>

ClsResolveCriterion ==
    \E name \in CriterionNames, kwargs \in CriterionKwargs :
        \E r \in {cls_instantiate_criterion(name, kwargs)} :
        /\ res' = [NoRes EXCEPT !.adapter = "classification", !.kind = "criterion",
                                !.name = name, !.kwargs = kwargs,
                                !.raised = r.raised, !.message = r.message,
                                !.obj = r.obj]
        /\ UNCHANGED <<run, dsVars, fcVars, tfmVars, clsDataset, clsDsCall, ccfg, clf, ccall>>

ResolveInit ==
    /\ res = NoRes
    /\ run = NoRun
    /\ dataset = NoDataset
    /\ dsCall = NoDsCall
    /\ cfg = NoCfg
    /\ est = Unfit
    /\ call = NoCall
    /\ tcfg = NoTfmCfg
    /\ tfm = TfmUnfit
    /\ tcall = NoTfmCall
    /\ clsDataset = NoClsDataset
    /\ clsDsCall = NoClsDsCall
    /\ ccfg = NoClsCfg
    /\ clf = ClsUnfit
    /\ ccall = NoClsCall

ResolveNext ==
    \/ FcResolveOptimizer
    \/ FcResolveCriterion
    \/ ClsResolveOptimizer
    \/ ClsResolveCriterion

SpecResolve == ResolveInit /\ [][ResolveNext]_vars

(***************************************************************************)
(* SpecClsDataset: a BaseDatasetPytorch is constructed over a dense array,  *)
(* with labels (fit) or without (predict), and queried like a DataLoader    *)
(* queries it.                                                              *)
(***************************************************************************)
ClsDsConstruct ==
    \E N \in 1 .. MaxInst, V \in 1 .. MaxVars, T \in 1 .. MaxLen,
       labelled \in BOOLEAN :
        /\ clsDataset' = BaseDatasetPytorch(
                             ClsArray(N, V, T),
                             IF labelled THEN ClsLabels(N) ELSE NoLabels)
        /\ clsDsCall' = [NoClsDsCall EXCEPT !.raw = ClsArray(N, V, T)]
        /\ UNCHANGED <<run, dsVars, fcVars, tfmVars, ccfg, clf, ccall, res>>

ClsDsLen ==
    /\ clsDsCall' = [clsDsCall EXCEPT !.op = "len",
                                      !.len = ClsDatasetLen(clsDataset)]
    /\ UNCHANGED <<run, clsDataset, dsVars, fcVars, tfmVars, ccfg, clf, ccall, res>>

ClsDsGetItem ==
    \E i \in 0 .. ClsDatasetLen(clsDataset) - 1 :
        /\ clsDsCall' = [clsDsCall EXCEPT !.op = "getitem", !.i = i,
                             !.item = ClsDatasetGetItem(clsDataset, i)]
        /\ UNCHANGED <<run, clsDataset, dsVars, fcVars, tfmVars, ccfg, clf, ccall, res>>

ClsDsInit ==
    /\ clsDataset = NoClsDataset
    /\ clsDsCall = NoClsDsCall
    /\ ccfg = NoClsCfg
    /\ clf = ClsUnfit
    /\ ccall = NoClsCall
    /\ res = NoRes
    /\ run = NoRun
    /\ dataset = NoDataset
    /\ dsCall = NoDsCall
    /\ cfg = NoCfg
    /\ est = Unfit
    /\ call = NoCall
    /\ tcfg = NoTfmCfg
    /\ tfm = TfmUnfit
    /\ tcall = NoTfmCall

ClsDsNext == ClsDsConstruct \/ ClsDsLen \/ ClsDsGetItem

SpecClsDataset == ClsDsInit /\ [][ClsDsNext]_vars

(***************************************************************************)
(* BaseDeepNetworkPyTorch of the classification adapter                     *)
(* (classification/deep_learning/_pytorch.py): _fit.                        *)
(***************************************************************************)
\* the arrays fit can be given: N instances of one variable over two times
ClsInputs == {ClsArray(N, 1, 2) : N \in 1 .. MaxInst}

\* _build_dataloader (classification _pytorch.py 126-134):
\* DataLoader(dataset, self.batch_size), without shuffle: the batches follow
\* the dataset's order
cls_build_dataloader(X, y, batch_size) ==
    LET ds == BaseDatasetPytorch(X, y)
    IN  [ds |-> ds,
         batches |-> Batches(Identity(ClsDatasetLen(ds)), batch_size)]

\* _run_epoch (classification _pytorch.py 76-86): per batch one forward pass,
\* the loss, zero_grad, backward and one optimizer step
cls_run_epoch(net, batches) == [net EXCEPT !.steps = @ + Len(batches)]

\* for _ in range(self.num_epochs): self._run_epoch(dataloader)
RECURSIVE cls_run_epochs(_, _, _)
cls_run_epochs(net, epochs, batches) ==
    IF epochs <= 0 THEN net
    ELSE cls_run_epochs(cls_run_epoch(net, batches), epochs - 1, batches)

\* _fit (classification _pytorch.py 64-74)
cls_fit ==
    /\ clf.network.id < MaxFits
    /\ \E X \in ClsInputs :
        \E net0 \in {cls_build_network} :
        \E crit \in {cls_instantiate_criterion(ccfg.criterion,
                                               ccfg.criterion_kwargs)} :
        \E opt \in {cls_instantiate_optimizer(ccfg.optimizer,
                        ccfg.optimizer_kwargs, ccfg.lr, net0.id)} :
        LET base == [ClsUnfit EXCEPT !.network = net0]
            this == [NoClsCall EXCEPT !.op = "fit", !.items = Len(X)]
        IN  /\ UNCHANGED <<run, ccfg, clsDataset, clsDsCall, res, dsVars, fcVars,
                           tfmVars>>
            /\ IF crit.raised # None
               THEN /\ clf' = base
                    /\ ccall' = [this EXCEPT !.raised = crit.raised,
                                             !.message = crit.message]
               ELSE IF opt.raised # None
               THEN /\ clf' = [base EXCEPT !.criterion = crit.obj]
                    /\ ccall' = [this EXCEPT !.raised = opt.raised,
                                             !.message = opt.message]
               ELSE
                 \E dl \in {cls_build_dataloader(X, ClsLabels(Len(X)),
                                                 ccfg.batch_size)} :
                 \* self.network.train(), then the epochs
                 LET net == cls_run_epochs([net0 EXCEPT !.mode = "train"],
                                           ccfg.num_epochs, dl.batches)
                 IN  /\ clf' = [base EXCEPT !.state = "fitted",
                                            !.network = net,
                                            !.criterion = crit.obj,
                                            !.optimizer = opt.obj]
                     /\ ccall' = [this EXCEPT !.loader = TRUE,
                                              !.forwards = net.steps,
                                              !.steps = net.steps]

(***************************************************************************)
(* SpecFit: one estimator of either adapter, constructed with any           *)
(* optimizer and criterion name, batch size and number of epochs, is fit    *)
(* repeatedly.  A behaviour is the life of one estimator: the forecaster    *)
(* when its first call is fit, the classifier when it is cls_fit.           *)
(***************************************************************************)
\* configured (optimizer, criterion) names: the defaults, registry keys, and
\* names that are no keys
FitNames ==
    {<<None, None>>, <<"SGD", "L1">>, <<"adam", None>>, <<None, "mse">>}

FitInit ==
    /\ \E names \in FitNames, b \in BatchSizes, e \in EpochCounts :
          /\ cfg = [NoCfg EXCEPT !.optimizer = names[1], !.criterion = names[2],
                                 !.batch_size = b, !.num_epochs = e]
          /\ ccfg = [NoClsCfg EXCEPT !.optimizer = names[1],
                                     !.criterion = names[2],
                                     !.batch_size = b, !.num_epochs = e]
    /\ est = Unfit
    /\ call = NoCall
    /\ clf = ClsUnfit
    /\ ccall = NoClsCall
    /\ res = NoRes
    /\ run = NoRun
    /\ dataset = NoDataset
    /\ dsCall = NoDsCall
    /\ clsDataset = NoClsDataset
    /\ clsDsCall = NoClsDsCall
    /\ tcfg = NoTfmCfg
    /\ tfm = TfmUnfit
    /\ tcall = NoTfmCall

FitForecaster == ccall.op = "init" /\ fit

FitClassifier == call.op = "init" /\ cls_fit

FitNext == FitForecaster \/ FitClassifier

SpecFit == FitInit /\ [][FitNext]_vars

(***************************************************************************)
(* Claims about BaseDeepNetworkPyTorch (checked under Spec).  `call` is     *)
(* the most recent call with what it saw and returned.                      *)
(***************************************************************************)
\* the history the most recent predict worked on
PredY == IF call.y # NoFrame THEN call.y ELSE est.y

PredN == Len(PredY.ids)

PredL == Len(PredY.times[1])

PredOk == call.op = "predict" /\ call.raised = None

\* the last seq_len observations of the instance labelled id
Trailing(id) ==
    [k \in 1 .. est.network.seq_len |->
        <<id, est.cutoff - est.network.seq_len + k>>]

\* the time level of the rows labelled id, in row order
RECURSIVE TimesOf(_, _)
TimesOf(rows, id) ==
    IF rows = <<>> THEN <<>>
    ELSE IF Head(rows).inst = id
         THEN <<Head(rows).time>> \o TimesOf(Tail(rows), id)
         ELSE TimesOf(Tail(rows), id)

C4_EmptyFitRaises ==
    call.op = "fit" =>
        /\ (call.loader /\ prepare_data(call.y).raised = None
                        /\ call.windows = 0) =>
               (call.raised = "ValueError" /\ est.state # "fitted")
        /\ call.raised = None =>
               (est.state = "fitted" /\ call.steps > 0 /\ est.network.steps > 0)

\* fit on a series shorter than seq_len + pred_len
C4_Witness ==
    /\ call.op = "fit"
    /\ call.loader
    /\ Len(call.y.times[1]) < cfg.seq_len + SetMax(call.fh)
    /\ call.windows = 0
    /\ call.raised = "ValueError"

\* C5: for a multi-instance panel the reconstructed row index lists the
\* instances in the order of the input panel, each H consecutive times, with
\* the time level cutoff+1 .. cutoff+H within each instance.
C5_IndexInPanelOrder ==
    (PredOk /\ PredY.multi) =>
        [k \in 1 .. Len(call.frame) |->
            [inst |-> call.frame[k].inst, time |-> call.frame[k].time]]
          = Flatten([n \in 1 .. PredN |->
                        [h \in 1 .. est.network.pred_len |->
                            [inst |-> PredY.ids[n], time |-> est.cutoff + h]]])

\* C6: for a requested horizon F within 1 .. H the returned frame has exactly
\* |F| rows per instance, at exactly the offsets of F, in increasing order.
C6_HorizonFilter ==
    (PredOk /\ call.fh \subseteq 1 .. est.network.pred_len) =>
        LET labels == IF PredY.multi THEN {PredY.ids[n] : n \in DOMAIN PredY.ids}
                      ELSE {NoInst}
        IN  /\ Len(call.result) = Cardinality(call.fh) * Cardinality(labels)
            /\ \A id \in labels :
                   TimesOf(call.result, id) =
                       SortedSeq({est.cutoff + f : f \in call.fh})

\* a panel forecast of 2 steps of which only offset 2 was requested
C6_Witness ==
    /\ PredOk
    /\ PredY.multi
    /\ est.network.pred_len = 2
    /\ call.fh = {2}
    /\ Len(call.result) = 2

\* C7: inference windows are delivered in dataset order, so that the k-th
\* block of H rows, labelled with the k-th instance, holds the forecast
\* computed from the k-th instance's own history window.
C7_DeterministicOrder ==
    (PredOk /\ PredY.multi) =>
        /\ call.order = Identity(call.windows)
        /\ \A k \in 1 .. PredN : \A h \in 1 .. est.network.pred_len :
               LET row == call.frame[(k - 1) * est.network.pred_len + h]
               IN  /\ row.inst = PredY.ids[k]
                   /\ row.value.window = Trailing(PredY.ids[k])

\* C8: two consecutive predict calls with identical inputs return identical
\* outputs.
C8_IdempotentPredict ==
    [][(/\ call.op = "predict"
        /\ call'.op = "predict"
        /\ call'.fh = call.fh
        /\ call'.y = call.y)
          => (call'.raised = call.raised /\ call'.result = call.result)]_vars

\* C9: a TimesFM predict whose maximum relative offset exceeds _horizon_len
\* raises a ValueError naming that horizon length, before the history is
\* converted and before decode is invoked; nothing is returned and the
\* fitted state is unchanged.
C9_TimesFMHorizonError ==
    [][(tcall'.op = "predict" /\ SetMax(tcall'.fh) > tfm._horizon_len)
          => /\ tcall'.raised = "ValueError"
             /\ tcall'.message = tfm._horizon_len
             /\ ~tcall'.converted
             /\ ~tcall'.decoded
             /\ tcall'.frame = <<>>
             /\ tcall'.result = <<>>
             /\ tfm' = tfm]_vars

\* a predict that asked for more than the fitted horizon length
C9_Witness ==
    /\ tcall.op = "predict"
    /\ tfm.state = "fitted"
    /\ SetMax(tcall.fh) > tfm._horizon_len
    /\ tcall.raised = "ValueError"

\* C10: predict with a horizon whose maximum offset exceeds the prediction
\* length the network was built with fails with an error.
C10_HorizonBeyondFitRaises ==
    (call.op = "predict" /\ SetMax(call.fh) > est.network.pred_len)
        => call.raised # None

(***************************************************************************)
(* Claims about the classification adapter.                                 *)
(***************************************************************************)
\* the array the classification dataset was constructed from
ClsRaw == clsDsCall.raw

\* C11: the classification dataset has one item per instance; item i carries
\* instance i with the axes swapped to (time, variables) and a padding mask
\* of shape (time,) that is true everywhere, with labels and without.
C11_ClsItemsAllTrueMask ==
    LET N == Len(ClsRaw)
        V == Len(ClsRaw[1])
        T == Len(ClsRaw[1][1])
    IN  /\ ClsDatasetLen(clsDataset) = N
        /\ clsDsCall.op = "len" => clsDsCall.len = N
        /\ clsDsCall.op = "getitem" =>
               LET item == clsDsCall.item
               IN  /\ clsDsCall.i \in 0 .. N - 1
                   /\ Len(item.inputs.X) = T
                   /\ \A t \in 1 .. T :
                          /\ Len(item.inputs.X[t]) = V
                          /\ \A v \in 1 .. V :
                                 item.inputs.X[t][v] = ClsRaw[clsDsCall.i + 1][v][t]
                   /\ item.inputs.padding_masks = [t \in 1 .. T |-> TRUE]
                   /\ item.has_y = (clsDataset.y # NoLabels)
                   /\ item.has_y => item.y = clsDataset.y[clsDsCall.i + 1]

\* an item of an unlabelled dataset whose time and variable axes differ in
\* length
C11_Witness ==
    /\ clsDsCall.op = "getitem"
    /\ clsDsCall.i = 1
    /\ ~clsDsCall.item.has_y
    /\ Len(ClsRaw[1]) = 2
    /\ Len(ClsRaw[1][1]) = 3
    /\ Len(clsDsCall.item.inputs.padding_masks) = 3

\* C12: a configured name that is a key of the registry yields the registry's
\* constructor applied with the configured keyword arguments (and, for an
\* optimizer, the network's parameters and the configured learning rate); a
\* name that is not a key, in any other spelling too, raises a TypeError
\* whose message lists the valid names; no name yields the default: Adam with
\* the configured learning rate, MSELoss (forecasting) or CrossEntropyLoss
\* (classification).  In both adapters.
C12_Resolution ==
    /\ res.kind = "optimizer" =>
           IF res.name = None
           THEN /\ res.raised = None
                /\ res.obj = [ctor |-> "torch.optim.Adam", params |-> res.params,
                              lr |-> res.lr, kwargs |-> NoKwargs]
           ELSE IF res.name \in {"Adam", "SGD"}
           THEN /\ res.raised = None
                /\ res.obj = [ctor |-> IF res.name = "Adam"
                                       THEN "torch.optim.Adam"
                                       ELSE "torch.optim.SGD",
                              params |-> res.params, lr |-> res.lr,
                              kwargs |-> res.kwargs]
           ELSE /\ res.raised = "TypeError"
                /\ res.message = {"Adam", "SGD"}
    /\ res.kind = "criterion" =>
           IF res.name = None
           THEN /\ res.raised = None
                /\ res.obj = [ctor |-> IF res.adapter = "forecasting"
                                       THEN "torch.nn.MSELoss"
                                       ELSE "torch.nn.CrossEntropyLoss",
                              kwargs |-> NoKwargs]
           ELSE IF res.name \in {"MSE", "L1"}
           THEN /\ res.raised = None
                /\ res.obj = [ctor |-> IF res.name = "MSE"
                                       THEN "torch.nn.MSELoss"
                                       ELSE "torch.nn.L1Loss",
                              kwargs |-> res.kwargs]
           ELSE /\ res.raised = "TypeError"
                /\ res.message = {"MSE", "L1"}

\* an optimizer name in another spelling than the registry's key was rejected
C12_Witness ==
    /\ res.kind = "optimizer"
    /\ res.adapter = "forecasting"
    /\ res.name = "adam"
    /\ res.raised = "TypeError"
    /\ res.message = {"Adam", "SGD"}

(***************************************************************************)
(* Claims about fit of both adapters (checked under SpecFit).               *)
(***************************************************************************)
UnknownOptimizer(name) == name # None /\ name \notin DOMAIN optimizers

UnknownCriterion(name) == name # None /\ name \notin DOMAIN criterions

\* C13: when the configured optimizer or criterion name is unknown, fit
\* raises the configuration error before any costly work: build_dataloader is
\* not called, and no forward pass and no optimizer step is taken.  In both
\* adapters.
C13_ConfigErrorBeforeWork ==
    /\ (/\ call.op = "fit"
        /\ call.fh # NoFH
        /\ check_fh(call.fh) = None
        /\ UnknownOptimizer(cfg.optimizer) \/ UnknownCriterion(cfg.criterion))
         => /\ call.raised = "TypeError"
            /\ ~call.loader
            /\ call.windows = 0
            /\ call.forwards = 0
            /\ call.steps = 0
            /\ est.network.steps = 0
            /\ est.state = "unfit"
    /\ (/\ ccall.op = "fit"
        /\ UnknownOptimizer(ccfg.optimizer) \/ UnknownCriterion(ccfg.criterion))
         => /\ ccall.raised = "TypeError"
            /\ ~ccall.loader
            /\ ccall.forwards = 0
            /\ ccall.steps = 0
            /\ clf.network.steps = 0
            /\ clf.state = "unfit"

\* a forecaster configured with the optimizer "adam" was fit on a series long
\* enough to train on, and the optimizer was rejected
C13_Witness ==
    /\ call.op = "fit"
    /\ cfg.optimizer = "adam"
    /\ call.fh # NoFH
    /\ Len(call.y.times[1]) >= cfg.seq_len + SetMax(call.fh)
    /\ call.raised = "TypeError"
    /\ call.message = {"Adam", "SGD"}

(***************************************************************************)
(* Claims about the lifecycle of the forecasting adapter (checked under     *)
(* Spec).                                                                   *)
(***************************************************************************)
\* C14 as stated: the estimator is fitted exactly after a fit that returned,
\* predict is only served by a fitted estimator, and predict leaves the
\* fitted state (network with its parameters and its train/eval mode,
\* criterion, optimizer, cutoff, stored series) as fit left it.
C14_PredictLeavesFittedState ==
    [][/\ call'.op = "fit" => (est'.state = "fitted") = (call'.raised = None)
       /\ call'.op = "predict" => (est.state = "fitted" /\ est' = est)]_vars

\* C14 (amended): as stated, except for the network's train/eval mode: fit
\* leaves the network in train mode, a predict that gets to its forward
\* passes switches it to eval mode, and predict changes nothing else of the
\* fitted state.
C14_PredictKeepsAllButMode ==
    [][/\ call'.op = "fit" =>
             /\ (est'.state = "fitted") = (call'.raised = None)
             /\ call'.raised = None => est'.network.mode = "train"
       /\ call'.op = "predict" =>
             /\ est.state = "fitted"
             /\ est' = IF call'.forwards > 0
                       THEN [est EXCEPT !.network.mode = "eval"]
                       ELSE est]_vars

\* a trained network after a predict that returned
C14_Witness ==
    /\ call.op = "predict"
    /\ call.raised = None
    /\ est.state = "fitted"
    /\ est.network.steps > 0
    /\ est.network.mode = "eval"

\* the number of batches of a loader over n items
BatchCount(n, batch_size) == (n + batch_size - 1) \div batch_size

\* C15: every fit that returns, a second fit on the same instance too, has
\* built a new network, a criterion, and an optimizer bound to the new
\* network's parameters; the new network has taken the optimizer steps of
\* this fit only.  In both adapters.
C15_FitBuildsAnew ==
    [][/\ (call'.op = "fit" /\ call'.raised = None) =>
             /\ est'.network.id = est.network.id + 1
             /\ est'.optimizer.params = est'.network.id
             /\ est'.criterion =
                    instantiate_criterion(cfg.criterion, cfg.criterion_kwargs).obj
             /\ est'.network.steps =
                    cfg.num_epochs * BatchCount(call'.windows, cfg.batch_size)
       /\ (ccall'.op = "fit" /\ ccall'.raised = None) =>
             /\ clf'.network.id = clf.network.id + 1
             /\ clf'.optimizer.params = clf'.network.id
             /\ clf'.criterion =
                    cls_instantiate_criterion(ccfg.criterion,
                                              ccfg.criterion_kwargs).obj
             /\ clf'.network.steps =
                    ccfg.num_epochs * BatchCount(ccall'.items, ccfg.batch_size)]_vars

\* a forecaster after its second fit
C15_Witness ==
    /\ call.op = "fit"
    /\ call.raised = None
    /\ est.state = "fitted"
    /\ est.network.id = 2
    /\ est.optimizer.params = 2
    /\ est.network.steps > 0

\* C16: a fit that returns has run exactly num_epochs epochs, each over every
\* batch once: it took num_epochs * B optimizer steps (and as many forward
\* passes), B = ceil(window_count / batch_size).  In both adapters, where the
\* classifier's items are its instances.
C16_StepsPerFit ==
    /\ (call.op = "fit" /\ call.raised = None) =>
           /\ call.steps =
                  cfg.num_epochs * BatchCount(call.windows, cfg.batch_size)
           /\ call.forwards = call.steps
    /\ (ccall.op = "fit" /\ ccall.raised = None) =>
           /\ ccall.steps =
                  ccfg.num_epochs * BatchCount(ccall.items, ccfg.batch_size)
           /\ ccall.forwards = ccall.steps

\* two epochs over three windows in batches of two: four steps
C16_Witness ==
    /\ call.op = "fit"
    /\ call.raised = None
    /\ cfg.num_epochs = 2
    /\ cfg.batch_size = 2
    /\ call.windows = 3
    /\ call.steps = 4

\* C17: every forward pass of a predict runs with gradient tracking disabled,
\* in BaseDeepNetworkPyTorch's predict and in TimesFM's PyTorch predict.
C17_PredictWithoutGrad ==
    /\ (call.op = "predict" /\ call.forwards > 0) => ~call.grad
    /\ (tcall.op = "predict" /\ tcall.decoded) => ~tcall.grad

(***************************************************************************)
(* Claims about data preparation (checked under Spec).                      *)
(***************************************************************************)
\* a panel in which some instance's time index differs from the first
\* instance's, in its values or in its length
Ragged(y) == y.multi /\ \E n \in DOMAIN y.times : y.times[n] # y.times[1]

\* C18: a panel in which some instance's time index differs from the first
\* instance's is rejected in data preparation: fit and predict raise before a
\* dataset of windows exists, before any training batch and before any
\* forward pass, and nothing is returned.
C18_RaggedPanelRejected ==
    /\ (/\ call.op = "fit"
        /\ call.fh # NoFH
        /\ check_fh(call.fh) = None
        /\ Ragged(call.y)) =>
           /\ call.raised = "AssertionError"
           /\ call.windows = 0
           /\ call.forwards = 0
           /\ call.steps = 0
           /\ est.network.steps = 0
           /\ est.state = "unfit"
    /\ (call.op = "predict" /\ Ragged(PredY)) =>
           /\ call.raised = "AssertionError"
           /\ call.windows = 0
           /\ call.items = <<>>
           /\ call.forwards = 0
           /\ call.frame = <<>>
           /\ call.result = <<>>

\* predict on a panel whose second instance is shorter than its first
C18_Witness ==
    /\ call.op = "predict"
    /\ call.y.multi
    /\ Len(call.y.times[2]) < Len(call.y.times[1])
    /\ call.raised = "AssertionError"

(***************************************************************************)
(* Claims about the horizon given to fit.                                   *)
(***************************************************************************)
InSample(fh) == \E h \in fh : h <= 0

\* the training series has at least one window for the horizon
Trainable(y, fh) ==
    /\ fh # NoFH
    /\ ~Ragged(y)
    /\ Len(y.times[1]) >= cfg.seq_len + SetMax(fh)

C20_SizedToHorizonOrDefault ==
    /\ call.op = "fit" =>
           IF call.fh = NoFH
           THEN call.raised = None /\ est.state = "fitted"
           ELSE ~InSample(call.fh) => est.network.pred_len = SetMax(call.fh)
    /\ tcall.op = "fit" =>
           tfm._horizon_len = IF tcall.fh = NoFH THEN tcfg.horizon_len
                              ELSE SetMax(tcall.fh)

\* C20 (amended): the loop adapter requires a horizon: its fit builds the
\* network for the maximum relative offset of the horizon, and without a
\* horizon it raises and trains nothing.  TimesFM's fit sets _horizon_len to
\* the larger of the configured horizon length and the maximum relative
\* offset, and to the configured horizon length when no horizon is given.
C20_SizedToHorizon ==
    /\ call.op = "fit" =>
           IF call.fh = NoFH
           THEN /\ call.raised # None
                /\ est.state = "unfit"
                /\ ~call.loader
                /\ call.steps = 0
           ELSE ~InSample(call.fh) => est.network.pred_len = SetMax(call.fh)
    /\ tcall.op = "fit" =>
           tfm._horizon_len = IF tcall.fh = NoFH THEN tcfg.horizon_len
                              ELSE Max2(tcfg.horizon_len, SetMax(tcall.fh))

\* TimesFM configured with horizon length 2 and fit for the horizon {1}
C20_Witness ==
    /\ tcall.op = "fit"
    /\ tcfg.horizon_len = 2
    /\ tcall.fh = {1}
    /\ tfm._horizon_len = 2

(***************************************************************************)
(* Claims about PyTorchTrainDataset (checked under SpecTrainDataset).       *)
(***************************************************************************)
\* C21: item i of a training dataset has as input the history window
\* y[i : i+seq_len] with the k exogenous columns joined along the variable
\* axis (seq_len rows, y columns + k columns), the window itself when there
\* is no exogenous data; its target is y[i+seq_len : i+seq_len+fh].
C21_ExogJoinedAlongVariables ==
    dsCall.op = "getitem" =>
        LET d == dataset
            i == dsCall.i
            cols == Len(d.y[1])
            k == IF d.X = NoExog THEN 0 ELSE Len(d.X[1])
            input == dsCall.result.input
        IN  /\ dsCall.raised = None
            /\ Len(input) = d.seq_len
            /\ \A r \in 1 .. d.seq_len :
                   /\ Len(input[r]) = cols + k
                   /\ SubSeq(input[r], 1, cols) = d.y[i + r]
            /\ d.X = NoExog => input = SubSeq(d.y, i + 1, i + d.seq_len)
            /\ dsCall.result.target =
                   SubSeq(d.y, i + d.seq_len + 1, i + d.seq_len + d.fh)

(***************************************************************************)
(* Claims about the labelling of forecasts (checked under SpecNames).       *)
(***************************************************************************)
\* C22: the frame a predict returns has the index level names of the frame
\* it forecast from, level by level, for a flat and for a multi-level index,
\* and its column names; in the loop adapter and in TimesFM.
C22_NamesCopied ==
    /\ PredOk =>
           /\ call.names = PredY.names
           /\ call.columns = PredY.columns
    /\ (tcall.op = "predict" /\ tcall.raised = None) =>
           LET y == IF tcall.y # NoFrame THEN tcall.y ELSE tfm.y
           IN  /\ tcall.names = y.names
               /\ tcall.columns = y.columns

\* a forecast from a panel passed to predict that is named otherwise than
\* the training series
C22_Witness ==
    /\ PredOk
    /\ call.y # NoFrame
    /\ call.y.multi
    /\ est.y.names = <<"instance", "time">>
    /\ call.y.names = <<"id", "date">>
    /\ call.names = <<"id", "date">>
    /\ call.columns = <<"value">>

(***************************************************************************)
(* Claims about the training loop (checked under SpecEpoch).                *)
(***************************************************************************)
TrainingSteps == <<"forward", "loss", "zero_grad", "backward", "step">>

IsTrainingStep(e) == \E k \in DOMAIN TrainingSteps : TrainingSteps[k] = e.stmt

\* C23: within an epoch the batches are processed one after the other, each
\* by forward pass, loss on (prediction, target) of that batch, zero_grad,
\* backward, optimizer step, in this order: all steps of a batch come before
\* the forward pass of the next, zero_grad before backward before step, so
\* that every optimizer step applies the gradient of its own batch only.
C23_BatchStepOrder ==
    LET log == SelectSeq(run.log, IsTrainingStep)
        n == Len(TrainingSteps)
    IN  /\ \A j \in DOMAIN log :
               log[j] = [stmt |-> TrainingSteps[((j - 1) % n) + 1],
                         batch |-> ((j - 1) \div n) + 1]
        /\ run.pc \in {"zero_grad", "backward", "step"} =>
               run.loss = [pred |-> run.b, target |-> run.b]
        /\ \A k \in DOMAIN run.applied : run.applied[k] = {k}
        /\ run.pc = "done" => Len(log) = n * Len(run.batches)

\* a second epoch of the classifier over three batches has completed
C23_Witness ==
    /\ run.pc = "done"
    /\ run.adapter = "classification"
    /\ Len(run.batches) = 3
    /\ run.applied = <<{1}, {2}, {3}>>
    /\ Len(run.losses) = 3

(***************************************************************************)
(* Claims about the input of the TimesFM model (checked under SpecTimesFM). *)
(***************************************************************************)
\* the history a predict call of the TimesFM forecaster forecasts from
TfmHistory == tfm_hist(IF tcall.y # NoFrame THEN tcall.y ELSE tfm.y).arr

\* C24: whatever the length T of the history, the model is handed an input of
\* exactly context_len columns and a padding array of exactly
\* context_len + _horizon_len columns.  With T >= context_len the input is the
\* last context_len observations and the padding array is all zero; with
\* T < context_len the input is context_len - T zeros followed by the T
\* observations, and the padding array is 1 in exactly its first
\* context_len - T positions and 0 elsewhere.
C24_ContextWindow ==
    (tcall.op = "predict" /\ tcall.decoded) =>
        LET hist == TfmHistory
            T == Len(hist[1])
            c == tcfg.context_len
        IN  /\ Len(tcall.input) = Len(hist)
            /\ Len(tcall.pads) = Len(hist)
            /\ \A n \in DOMAIN hist :
                   /\ Len(tcall.input[n]) = c
                   /\ Len(tcall.pads[n]) = c + tfm._horizon_len
                   /\ T >= c =>
                          /\ \A k \in 1 .. c : tcall.input[n][k] = hist[n][T - c + k]
                          /\ \A k \in DOMAIN tcall.pads[n] : tcall.pads[n][k] = 0
                   /\ T < c =>
                          /\ \A k \in 1 .. c :
                                 tcall.input[n][k] =
                                     IF k <= c - T THEN Zero ELSE hist[n][k - (c - T)]
                          /\ \A k \in DOMAIN tcall.pads[n] :
                                 tcall.pads[n][k] = IF k <= c - T THEN 1 ELSE 0

\* a history shorter than the context has been padded at the front
C24_Witness ==
    /\ tcall.op = "predict"
    /\ tcall.decoded
    /\ Len(TfmHistory[1]) < tcfg.context_len
    /\ tcall.input[1][1] = Zero
    /\ tcall.pads[1][1] = 1

(***************************************************************************)
(* Claims about Dataset_Custom (checked under SpecCustomDataset).           *)
(***************************************************************************)
\* the rows at 0-based positions a .. b-1 of a segment
Rows(seg, a, b) == [k \in 1 .. (b - a) |-> seg[a + k]]

\* item i is the encoder window, the decoder input (label rows followed by
\* pred_len rows of zeros) and the target, all inside the segment
CustomItemAsSpecified ==
    (dsCall.op = "getitem" /\ dataset.label_len <= dataset.seq_len) =>
        LET d == dataset
            i == dsCall.i
            seg == d.data_x
        IN  /\ i + d.seq_len + d.pred_len <= Len(seg)
            /\ dsCall.result.x_enc = Rows(seg, i, i + d.seq_len)
            /\ dsCall.result.x_dec =
                   Rows(seg, i + d.seq_len - d.label_len, i + d.seq_len)
                       \o [k \in 1 .. d.pred_len |-> 0]
            /\ dsCall.result.target =
                   Rows(seg, i + d.seq_len, i + d.seq_len + d.pred_len)

\* C25: a Dataset_Custom over a split segment of L rows with size
\* (seq_len, label_len, pred_len), label_len <= seq_len, has length
\* max(L - seq_len - pred_len + 1, 0), never a negative one, and its item i
\* is the encoder rows [i, i+seq_len), the decoder input of the label_len
\* rows [i+seq_len-label_len, i+seq_len) followed by pred_len rows of zeros,
\* and the target rows [i+seq_len, i+seq_len+pred_len), all inside the
\* segment.
C25_LengthAndWindows ==
    /\ (dsCall.op = "len" /\ dataset.label_len <= dataset.seq_len) =>
           /\ dsCall.raised = None
           /\ dsCall.result =
                  Max2(Len(dataset.data_x) - dataset.seq_len - dataset.pred_len + 1, 0)
    /\ CustomItemAsSpecified

(***************************************************************************)
(* Claims about _horizon_len of the TimesFM forecaster (checked under       *)
(* SpecTimesFM).                                                            *)
(***************************************************************************)
\* _horizon_len of the fitted forecaster t configured with c is what the most
\* recent fit, given the horizon t.fh, made it
HorizonLenOfLastFit(t, c) ==
    t.state = "fitted" =>
        /\ t._horizon_len = IF t.fh = NoFH THEN c.horizon_len
                            ELSE Max2(c.horizon_len, SetMax(t.fh))
        /\ t._horizon_len >= c.horizon_len

\* the call raised the error of a horizon beyond _horizon_len, which is
\* raised before the history is converted
RaisedHorizonExceeded(c) == c.raised = "ValueError" /\ ~c.converted

\* C26: after any sequence of fit and predict calls, _horizon_len is the
\* larger of the configured horizon_len and the maximum relative offset of
\* the horizon given to the most recent fit (the configured horizon_len when
\* that fit was given none), so never below the configured horizon_len; a
\* predict that reuses the horizon of the most recent fit never raises the
\* horizon-exceeded error; and predict never changes _horizon_len.
C26_HorizonLenFromLastFit ==
    [][/\ HorizonLenOfLastFit(tfm', tcfg')
       /\ tcall'.op = "predict" =>
              /\ tfm'._horizon_len = tfm._horizon_len
              /\ tcall'.fhArg = NoFH => ~RaisedHorizonExceeded(tcall')]_vars

\* fit with a horizon beyond the configured horizon_len was followed by a
\* predict reusing that horizon, which returned a forecast
C26_Witness ==
    /\ tcall.op = "predict"
    /\ tcall.fhArg = NoFH
    /\ tfm._horizon_len > tcfg.horizon_len
    /\ tcall.raised = None
    /\ tcall.result # <<>>

====
